---- MODULE Spec2Model ----
(***************************************************************************)
(* A model of testing/vcttesting/docker.py: the Docker image build and     *)
(* provisioning orchestration used to stand up the test environment.       *)
(*                                                                         *)
(* The container engine is a black box, modelled by its image, container   *)
(* and network stores.  Each component of docker.py has its own            *)
(* specification over the shared engine state:                             *)
(*   SpecImport    import_base_image                                       *)
(*   SpecRollback  docker_rollback_on_error                                *)
(*   SpecPrune     prune_images                                            *)
(*   SpecBuild     ensure_images_built, ensure_built, run_ansible,         *)
(*                 clobber_needed and the worker pool                      *)
(***************************************************************************)
EXTENDS Integers, Sequences, FiniteSets, TLC

VARIABLES
    \* ---- the container engine ----
    images,         \* image id -> [RepoTags, Created, History]
    nextId,         \* the engine's allocator of image and container ids
    \* ---- import_base_image ----
    ipc,            \* position of the call: idle, download, verify, decompress,
                    \* import, done, raised
    iargs,          \* (repository, tagprefix, url, digest) of the call
    fh,             \* the temporary file: the downloaded content
    ires,           \* the image id returned
    icalls,         \* calls made so far
    ilog,           \* observation of the current call and of earlier ones
    \* ---- docker_rollback_on_error ----
    containers,     \* engine: container id -> [ImageID, Image, Running]
    networks,       \* engine: the set of network ids
    rpc,            \* position of the scope: outside, inside, rollback,
                    \* exited, raised
    proxied,        \* whether client.__class__ is ProxiedDockerClient
    created_containers,
    created_networks,
    rexc,           \* the exception in flight or delivered to the caller
    rlog,           \* observation of the scope
    \* ---- the state document (self.state) and its file ----
    state,          \* [images, last, clobber, vct_cid]
    state_file,     \* the document as last written by save_state
    \* ---- prune_images ----
    ppc,            \* position of the call: idle, removing, done
    to_delete,      \* the image ids selected for removal
    retained,       \* the entries of state['images'] to keep
    pending,        \* removals submitted to the pool and not yet run
    plog,           \* observation of the call
    \* ---- the clock and the clobber files ----
    now,            \* time.time(), in ticks
    mtime,          \* role -> mtime of testing/clobber.<role>, NoTime if absent
    \* ---- ensure_images_built ----
    bpc,            \* position of the call: idle, vct, start, submit, collect,
                    \* unwind, returned, raised
    bargs,          \* [names, ansibles, existing, use_last, max_workers]
    bimages,        \* the mapping 'images' the call returns
    missing,        \* the roles left to build
    start_images,   \* role -> candidate start image
    vct,            \* vct_container's locals: [image, existing_cid, cid, start]
    workers,        \* size of the call's pool
    tasks,          \* the futures of the pool, in submission order
    collected,      \* futures as_completed has handed to the main thread
    bcalls,         \* calls made so far
    build_cache,    \* engine: builder name -> image of its last build
    blog,           \* observation of the current call and of the one before
    \* ---- run_ansible called on its own ----
    apc,            \* position of the call: idle, base, vct, sync, create,
                    \* attached, left, returned, raised
    aargs,          \* [repository, builder, start_image, vct_image, vct_cid]
    alocal,         \* the locals of run_ansible and of its vct_container
    alog,           \* observation of the call
    \* ---- save_state step by step, and the process around it ----
    spc,            \* idle, save, dump, crashed, unloadable
    state_fh,       \* the handle of save_state: [open, written]
    saves,          \* rewrites begun so far
    \* ---- get_code_coverage ----
    cov_calls,      \* coverage files handled so far
    cov_in,         \* the coverage file and the filemap of the last one
    cov_out,        \* what was emitted for it
    \* ---- ensure_built, step by step ----
    epc,            \* idle, dockerfile, context, build, stream, returned, raised
    eargs,          \* (name, use_last) of the call
    edir,           \* the builder directory the call finds
    estream,        \* what is left of the stream of the engine's build
    elog,           \* observation of the call
    \* ---- the include directives of ensure_built ----
    xpc,            \* idle, include, closed, raised
    vct_paths,      \* the directives of the Dockerfile not yet handled
    added,          \* the set 'added' of line 485
    tar,            \* the members tar.add has put in the archive, in order
    xlog,           \* observation of the call: the directives it was given
    \* ---- Docker.__init__: the state as constructed ----
    kpc,            \* unmade, made
    kfile,          \* the document at state_path: key -> kind of value
    kstate,         \* self.state after __init__: key -> kind of value
    \* ---- clobber_needed called on its own ----
    clog,           \* observation of the calls and of the touches
    \* ---- auto_clean_orphans ----
    opc,            \* position of the scope
    oeng,           \* the engine's containers, images and networks, newest first
    osnap,          \* the sets of ids taken at entry (lines 1052-1054)
    olog            \* observation: liveness, engine at exit, calls submitted

\* "No image": Python's None where an image or container id is expected.
\* Ids of the engine start at 1.
NoImage == 0

engineVars == <<images, nextId, containers, networks>>
importVars == <<ipc, iargs, fh, ires, icalls, ilog>>
rollbackVars == <<rpc, proxied, created_containers, created_networks, rexc, rlog>>
stateVars == <<state, state_file>>
pruneVars == <<ppc, to_delete, retained, pending, plog>>
clockVars == <<now, mtime>>
buildVars == <<bpc, bargs, bimages, missing, start_images, vct, workers, tasks,
               collected, bcalls, build_cache, blog>>

\* What the actions of one component leave alone.
ansibleVars == <<apc, aargs, alocal, alog>>
buildLocals == <<bpc, bargs, bimages, missing, start_images, vct, workers, tasks,
                 collected, bcalls, blog>>
saveVars == <<spc, state_fh, saves>>
coverageVars == <<cov_calls, cov_in, cov_out>>
ensureVars == <<epc, eargs, edir, estream, elog>>
includeVars == <<xpc, vct_paths, added, tar, xlog>>
constructVars == <<kpc, kfile, kstate>>
clobberVars == <<clog>>
orphanVars == <<opc, oeng, osnap, olog>>
notImport == <<rollbackVars, stateVars, pruneVars, clockVars, buildVars, ansibleVars,
               saveVars, coverageVars, ensureVars, includeVars, constructVars, clobberVars, orphanVars>>
notRollback == <<importVars, stateVars, pruneVars, clockVars, buildVars, ansibleVars,
                 saveVars, coverageVars, ensureVars, includeVars, constructVars, clobberVars, orphanVars>>
notPrune == <<importVars, rollbackVars, clockVars, buildVars, ansibleVars, saveVars,
              coverageVars, ensureVars, includeVars, constructVars, clobberVars, orphanVars>>
notBuild == <<importVars, rollbackVars, pruneVars, ansibleVars, saveVars,
              coverageVars, ensureVars, includeVars, constructVars, clobberVars, orphanVars>>
notAnsible == <<importVars, rollbackVars, pruneVars, buildLocals, saveVars,
                coverageVars, ensureVars, includeVars, constructVars, clobberVars, orphanVars>>
notSave == <<engineVars, importVars, rollbackVars, pruneVars, clockVars, buildVars,
             ansibleVars, coverageVars, ensureVars, includeVars, constructVars, clobberVars, orphanVars>>
notCoverage == <<engineVars, importVars, rollbackVars, stateVars, pruneVars,
                 clockVars, buildVars, ansibleVars, saveVars, ensureVars, includeVars, constructVars, clobberVars, orphanVars>>
notEnsure == <<importVars, rollbackVars, stateVars, pruneVars, clockVars,
               buildLocals, ansibleVars, saveVars, coverageVars, includeVars, constructVars, clobberVars, orphanVars>>
notInclude == <<engineVars, importVars, rollbackVars, stateVars, pruneVars,
                clockVars, buildVars, ansibleVars, saveVars, coverageVars,
                ensureVars, constructVars, clobberVars, orphanVars>>
notConstruct == <<engineVars, importVars, rollbackVars, stateVars, pruneVars,
                  clockVars, buildVars, ansibleVars, saveVars, coverageVars,
                  ensureVars, includeVars, clobberVars, orphanVars>>
notClobber == <<engineVars, importVars, rollbackVars, pruneVars, buildVars,
                ansibleVars, saveVars, coverageVars, ensureVars, includeVars,
                constructVars, orphanVars>>
notOrphan == <<engineVars, importVars, rollbackVars, stateVars, pruneVars,
               clockVars, buildVars, ansibleVars, saveVars, coverageVars,
               ensureVars, includeVars, constructVars, clobberVars>>

(***************************************************************************)
(* The engine's image store.                                               *)
(***************************************************************************)

\* A repotag "repository:tag" is held as the pair that split(':') yields.
\* Every tag this program creates has a colon-free repository and tag.
RepoTag(repository, tag) == <<repository, tag>>

ImageIds == DOMAIN images

Max(S) == CHOOSE x \in S : \A y \in S : y <= x

RECURSIVE SortedByCreated(_)
SortedByCreated(ids) ==
    IF ids = {} THEN <<>>
    ELSE LET newest == CHOOSE i \in ids :
                           \A j \in ids : images[j].Created <= images[i].Created
         IN  <<newest>> \o SortedByCreated(ids \ {newest})

\* _get_sorted_images: the engine's images, newest first.
get_sorted_images == SortedByCreated(ImageIds)

\* An entry of api_client.history(image): an image id and the command that
\* created it.  The history of an image starts with the image itself.
Layer(id, created_by) == [Id |-> id, CreatedBy |-> created_by]

\* Creation of an image by the engine under a fresh id, on top of the layers
\* of its parent.  A tag is held by one image at a time.
EngineNewImage(id, repotags, created_by, parent_history) ==
    [i \in ImageIds \cup {id} |->
        IF i = id
        THEN [RepoTags |-> repotags, Created |-> id,
              History  |-> <<Layer(id, created_by)>> \o parent_history]
        ELSE [images[i] EXCEPT !.RepoTags = @ \ repotags]]

\* api_client.tag(image, repository, tag)
EngineTag(id, repotag) ==
    [i \in ImageIds |->
        IF i = id THEN [images[i] EXCEPT !.RepoTags = @ \cup {repotag}]
        ELSE [images[i] EXCEPT !.RepoTags = @ \ {repotag}]]

(***************************************************************************)
(* import_base_image                                                       *)
(***************************************************************************)

MaxImportCalls == 3

\* hashlib.sha256(...).hexdigest(): injective on the model's values, and not
\* the identity.
Sha256(x) == <<"sha256", x>>

\* What a URL may deliver: a plain or an xz-compressed archive of the genuine
\* base image, or something else.
Contents ==
    { [fmt |-> "tar", body |-> "base"],
      [fmt |-> "xz",  body |-> "base"],
      [fmt |-> "tar", body |-> "tampered"] }

\* A URL is the sequence of its parts; the last one is its extension.
Urls == { <<"mirror/base", ".tar">>, <<"mirror/base", ".xz">> }
Repositories == { "secure-a", "secure-b" }
TagPrefixes == { "centos7" }
Digests == { Sha256(c) : c \in Contents }

ImportArgs ==
    [repository : Repositories, tagprefix : TagPrefixes,
     url : Urls, digest : Digests]

\* '%s%s' % (url, digest)
UrlDigest(url, digest) == url \o <<digest>>

\* tag = '%s-%s' % (tagprefix, sha256(url + digest))
CacheTag(tagprefix, url, digest) == <<tagprefix, Sha256(UrlDigest(url, digest))>>

\* A cache lookup that compares the repository alone.
RepoTagMatchesRepository(repotag, repository, tag) ==
    repotag[1] = repository

\* r, t = repotag.split(':'); r == repository and t == tag
RepoTagMatches(repotag, repository, tag) ==
    repotag[1] = repository /\ repotag[2] = tag

\* The loop over _get_sorted_images(): the id of the first image that carries
\* repository:tag, or NoImage.
RECURSIVE FirstTagged(_, _, _)
FirstTagged(seq, repository, tag) ==
    IF seq = <<>> THEN NoImage
    ELSE IF \E rt \in images[Head(seq)].RepoTags :
                RepoTagMatches(rt, repository, tag)
         THEN Head(seq)
         ELSE FirstTagged(Tail(seq), repository, tag)

CacheLookup(a) ==
    FirstTagged(get_sorted_images, a.repository,
                CacheTag(a.tagprefix, a.url, a.digest))

\* A check that accepts whatever was downloaded.
DigestAlwaysAccepted(content, digest) == TRUE

\* digester.hexdigest() != digest raises; this is the negation.
DigestVerified(content, digest) == Sha256(content) = digest

\* url.endswith('.xz')
EndsWithXz(url) == url[Len(url)] = ".xz"

\* lzma.decompress: defined on xz data only.
CanDecompress(content) == content.fmt = "xz"
Decompress(content) == [fmt |-> "tar", body |-> content.body]

\* The temporary file before the download and after it is closed.
NoContent == [fmt |-> "none", body |-> ""]
NoArgs == [repository |-> "", tagprefix |-> "", url |-> <<>>, digest |-> <<>>]

\* Observation of a call as it starts: what earlier calls with the same
\* arguments returned, and the image store the call found.
NewCallLog(a) ==
    [ prior      |-> {f.id : f \in {g \in ilog.first : g.args = a}},
      before     |-> images,
      downloaded |-> FALSE,
      content    |-> NoContent,
      imports    |-> {},
      outcome    |-> "running",
      first      |-> ilog.first ]

RecordFirst(log, a, id, how) ==
    IF \E f \in log.first : f.args = a THEN log.first
    ELSE log.first \cup {[args |-> a, id |-> id, how |-> how]}

\* Lines 346-353: the tag is computed and looked up; a hit returns at once.
ImportCall(a) ==
    /\ ipc = "idle"
    /\ icalls < MaxImportCalls
    /\ icalls' = icalls + 1
    /\ iargs' = a
    /\ fh' = NoContent
    /\ LET hit == CacheLookup(a)
           log == NewCallLog(a)
       IN  IF hit # NoImage
           THEN /\ ipc' = "done"
                /\ ires' = hit
                /\ ilog' = [log EXCEPT !.first = RecordFirst(log, a, hit, "hit")]
           ELSE /\ ipc' = "download"
                /\ ires' = NoImage
                /\ ilog' = log
    /\ UNCHANGED <<notImport, engineVars>>

\* Lines 356-361: the URL is streamed into the temporary file and the hasher.
ImportDownload(c) ==
    /\ ipc = "download"
    /\ fh' = c
    /\ ilog' = [ilog EXCEPT !.downloaded = TRUE, !.content = c]
    /\ ipc' = "verify"
    /\ UNCHANGED <<notImport, engineVars, iargs, ires, icalls>>

\* Lines 365-368: the digest check.
ImportVerify ==
    /\ ipc = "verify"
    /\ IF DigestVerified(fh, iargs.digest)
       THEN /\ ipc' = "decompress"
            /\ fh' = fh
       ELSE /\ ipc' = "raised"
            /\ fh' = NoContent      \* the temporary file is discarded
    /\ UNCHANGED <<notImport, engineVars, iargs, ires, icalls, ilog>>

\* Lines 375-376: .xz archives are decompressed locally.
ImportDecompress ==
    /\ ipc = "decompress"
    /\ IF EndsWithXz(iargs.url)
       THEN IF CanDecompress(fh)
            THEN ipc' = "import" /\ fh' = Decompress(fh)
            ELSE ipc' = "raised" /\ fh' = NoContent
       ELSE ipc' = "import" /\ fh' = fh
    /\ UNCHANGED <<notImport, engineVars, iargs, ires, icalls, ilog>>

\* Lines 378-382: the engine imports the data and tags the image.
ImportImage ==
    /\ ipc = "import"
    /\ LET id  == nextId
           tag == CacheTag(iargs.tagprefix, iargs.url, iargs.digest)
       IN  /\ images' = EngineNewImage(id, {RepoTag(iargs.repository, tag)},
                                       "import", <<>>)
           /\ nextId' = nextId + 1
           /\ ires' = id
           /\ ilog' = [ilog EXCEPT
                          !.imports = @ \cup {[data |-> fh, id |-> id]},
                          !.first = RecordFirst(ilog, iargs, id, "import")]
    /\ ipc' = "done"
    /\ fh' = NoContent
    /\ UNCHANGED <<notImport, iargs, icalls, containers, networks>>

\* The caller takes the result or the error; the next call may begin.
ImportReturn ==
    /\ ipc \in {"done", "raised"}
    /\ ipc' = "idle"
    /\ ilog' = [ilog EXCEPT !.outcome = IF ipc = "done" THEN "returned" ELSE "raised"]
    /\ UNCHANGED <<notImport, engineVars, iargs, fh, ires, icalls>>

ImportIdle ==
    /\ ipc = "idle"
    /\ iargs = NoArgs
    /\ fh = NoContent
    /\ ires = NoImage
    /\ icalls = 0
    /\ ilog = [prior |-> {}, before |-> images, downloaded |-> FALSE,
               content |-> NoContent, imports |-> {}, outcome |-> "running",
               first |-> {}]

\* The engine as import_base_image may find it: empty, holding an unrelated
\* image, or holding an image that an earlier process imported.
ImportEngines ==
    { <<>>,
      [i \in {1} |-> [RepoTags |-> {RepoTag("centos", "7")}, Created |-> 1,
                       History |-> <<Layer(1, "import")>>]] }
    \cup
    { [i \in {1} |-> [RepoTags |-> {RepoTag(a.repository,
                                       CacheTag(a.tagprefix, a.url, a.digest))},
                      Created |-> 1, History |-> <<Layer(1, "import")>>]] :
        a \in {x \in ImportArgs : x.repository = "secure-a"
                                  /\ x.digest = Sha256([fmt |-> "tar", body |-> "base"])} }

NextImport ==
    \/ \E a \in ImportArgs : ImportCall(a)
    \/ \E c \in Contents : ImportDownload(c)
    \/ ImportVerify
    \/ ImportDecompress
    \/ ImportImage
    \/ ImportReturn

(***************************************************************************)
(* docker_rollback_on_error                                                *)
(***************************************************************************)

\* Creations the body of one scope may make.
MaxScopeCreates == 3

ContainerIds == DOMAIN containers

\* The 'Image' field of a listed container is the reference the container was
\* created with: a full image id, a 12-character short id or a name.
IdRef(i) == [form |-> "id", n |-> i]
ShortRef(i) == [form |-> "short", n |-> i]
NameRef(i) == [form |-> "name", n |-> i]

EngineNewContainer(id, image, ref, running) ==
    [c \in ContainerIds \cup {id} |->
        IF c = id THEN [ImageID |-> image, Image |-> ref, Running |-> running]
        ELSE containers[c]]

\* A removal that leaves the container where it is.
EngineKeepContainer(id) == containers

EngineDropContainer(id) ==
    [c \in ContainerIds \ {id} |-> containers[c]]

RollbackIdle ==
    /\ rpc = "outside"
    /\ proxied = FALSE
    /\ created_containers = {}
    /\ created_networks = {}
    /\ rexc = "none"
    /\ rlog = [before_containers |-> {}, before_networks |-> {},
               made |-> 0, attempted |-> {}, failed |-> {}]

\* Lines 119-136: the tracking sets are made, the client's class is swapped
\* and the body starts.
ScopeEnter ==
    /\ rpc = "outside"
    /\ rlog.made = 0
    /\ rpc' = "inside"
    /\ proxied' = TRUE
    /\ created_containers' = {}
    /\ created_networks' = {}
    /\ rlog' = [rlog EXCEPT !.before_containers = ContainerIds,
                            !.before_networks = networks]
    /\ UNCHANGED <<notRollback, images, nextId, containers, networks, rexc>>

\* Lines 123-126: the body creates a container through the client.
BodyCreateContainer ==
    /\ rpc = "inside"
    /\ rlog.made < MaxScopeCreates
    /\ containers' = EngineNewContainer(nextId, NoImage, IdRef(NoImage), FALSE)
    /\ nextId' = nextId + 1
    /\ created_containers' =
           IF proxied THEN created_containers \cup {nextId} ELSE created_containers
    /\ rlog' = [rlog EXCEPT !.made = @ + 1]
    /\ UNCHANGED <<notRollback, images, networks, rpc, proxied, created_networks, rexc>>

\* Lines 128-131: the body creates a network through the client.
BodyCreateNetwork ==
    /\ rpc = "inside"
    /\ rlog.made < MaxScopeCreates
    /\ networks' = networks \cup {nextId}
    /\ nextId' = nextId + 1
    /\ created_networks' =
           IF proxied THEN created_networks \cup {nextId} ELSE created_networks
    /\ rlog' = [rlog EXCEPT !.made = @ + 1]
    /\ UNCHANGED <<notRollback, images, containers, rpc, proxied, created_containers, rexc>>

\* The body removes a container itself, as Docker.create_container does for
\* its temporary container when its own scope ends (lines 953-955).
BodyRemoveContainer(c) ==
    /\ rpc = "inside"
    /\ c \in ContainerIds
    /\ containers' = EngineDropContainer(c)
    /\ UNCHANGED <<notRollback, images, nextId, networks, rollbackVars>>

\* The body ends normally: line 144 restores the class.
ScopeExit ==
    /\ rpc = "inside"
    /\ rpc' = "exited"
    /\ proxied' = FALSE
    /\ UNCHANGED <<notRollback, engineVars, created_containers, created_networks, rexc, rlog>>

\* An exception escapes the body: line 137 catches it.
ScopeRaise ==
    /\ rpc = "inside"
    /\ rpc' = "rollback"
    /\ rexc' = "original"
    /\ UNCHANGED <<notRollback, engineVars, proxied, created_containers, created_networks, rlog>>

\* The container already visited by the loop of line 138.
RollbackPendingContainers == created_containers \ rlog.attempted
RollbackPendingNetworks == created_networks \ rlog.attempted

\* The removal raised inside the except block: the loop is left, line 144
\* restores the class and the removal's error is what the caller gets.
RemovalFailurePropagates(id) ==
    /\ rpc' = "raised"
    /\ rexc' = "removal"
    /\ proxied' = FALSE

\* Lines 138-139: one turn of the loop over created_containers.  The engine
\* answers 404 for a container that no longer exists.
RollbackContainer(c) ==
    /\ rpc = "rollback"
    /\ c \in RollbackPendingContainers
    /\ rlog' = [rlog EXCEPT !.attempted = @ \cup {c},
                            !.failed = IF c \in ContainerIds THEN @ ELSE @ \cup {c}]
    /\ IF c \in ContainerIds
       THEN /\ containers' = EngineDropContainer(c)
            /\ UNCHANGED <<rpc, rexc, proxied>>
       ELSE /\ containers' = containers
            /\ RemovalFailurePropagates(c)
    /\ UNCHANGED <<notRollback, images, nextId, networks, created_containers, created_networks>>

\* Lines 140-141: one turn of the loop over created_networks, entered once
\* the loop over the containers is through.
RollbackNetwork(n) ==
    /\ rpc = "rollback"
    /\ RollbackPendingContainers = {}
    /\ n \in RollbackPendingNetworks
    /\ rlog' = [rlog EXCEPT !.attempted = @ \cup {n},
                            !.failed = IF n \in networks THEN @ ELSE @ \cup {n}]
    /\ IF n \in networks
       THEN /\ networks' = networks \ {n}
            /\ UNCHANGED <<rpc, rexc, proxied>>
       ELSE /\ networks' = networks
            /\ RemovalFailurePropagates(n)
    /\ UNCHANGED <<notRollback, images, nextId, containers, created_containers, created_networks>>

\* Lines 142-144: both loops are through; the original exception is raised
\* again and the class restored.
RollbackReraise ==
    /\ rpc = "rollback"
    /\ RollbackPendingContainers = {}
    /\ RollbackPendingNetworks = {}
    /\ rpc' = "raised"
    /\ proxied' = FALSE
    /\ UNCHANGED <<notRollback, engineVars, created_containers, created_networks, rexc, rlog>>

NextRollback ==
    \/ ScopeEnter
    \/ BodyCreateContainer
    \/ BodyCreateNetwork
    \/ \E c \in ContainerIds : BodyRemoveContainer(c)
    \/ ScopeExit
    \/ ScopeRaise
    \/ \E c \in created_containers : RollbackContainer(c)
    \/ \E n \in created_networks : RollbackNetwork(n)
    \/ RollbackReraise

(***************************************************************************)
(* The state document                                                      *)
(***************************************************************************)

\* Python's None where a clobber time is expected.
NoTime == -1

\* The roles prune_images looks at (relevant_repos, lines 864-873).
relevant_repos ==
    {"pulse", "rbweb", "hgmaster", "hgrb", "hgweb", "ldap", "vct", "treestatus"}

\* The roles that have a last-<role>-id field (lines 158-166).
LastRoles == relevant_repos \cup {"rbweb-bootstrap"}

\* The roles that have a clobber-<role> field; clobber_needed adds the field
\* of any other role it is asked about, a missing one reading as None.
ClobberRoles == {"hgweb", "hgmaster", "hgrb", "rbweb", "vct"}

EmptyMap == [k \in {} |-> NoImage]

\* Lines 151-168: the document of a first run.
InitialState ==
    [ images  |-> EmptyMap,
      last    |-> [r \in LastRoles |-> NoImage],
      clobber |-> [r \in ClobberRoles |-> NoTime],
      vct_cid |-> NoImage ]

\* Lines 909-911.
save_state(doc) == state_file' = doc

(***************************************************************************)
(* prune_images                                                            *)
(***************************************************************************)

\* Images the engine holds when prune_images is called.
MaxPruneImages == 2

\* get_full_image (lines 837-846): a short id is resolved against the
\* engine's images; anything else comes back as it is.
get_full_image(ref) ==
    IF ref.form = "short" /\ ref.n \in ImageIds THEN IdRef(ref.n) ELSE ref

\* Lines 850-851: containers() lists the running containers.
running ==
    { get_full_image(containers[c].Image) :
        c \in {x \in ContainerIds : containers[x].Running} }

\* A protected set that leaves the last used images out.
ignore_nothing(st) == {}

\* Lines 853-862.
ignore_images(st) == { st.last[r] : r \in relevant_repos }

\* A selection that takes every tagged image.
has_any_repo(i) == images[i].RepoTags # {}

\* Lines 889-894: some tag of the image names a relevant repository.
has_relevant_repo(i) ==
    \E repotag \in images[i].RepoTags : repotag[1] \in relevant_repos

\* Lines 875-894: the keys of to_delete.
select_to_delete(st) ==
    { i \in ImageIds :
        /\ IdRef(i) \notin running
        /\ i \notin ignore_images(st)
        /\ has_relevant_repo(i) }

\* A rewrite that keeps every entry.
select_retained_all(st, del) == st.images

\* Lines 896-899.
select_retained(st, del) ==
    [k \in {x \in DOMAIN st.images : st.images[x] \notin del} |-> st.images[k]]

PruneIdle ==
    /\ ppc = "idle"
    /\ to_delete = {}
    /\ retained = EmptyMap
    /\ pending = {}
    /\ plog = [before |-> images, cache |-> state.images, submitted |-> <<>>,
               ran |-> {}, failed |-> {}]

\* Lines 850-904: the selection, and one submission per key of to_delete.
PruneStart ==
    /\ ppc = "idle"
    /\ plog.submitted = <<>>
    /\ LET del == select_to_delete(state)
       IN  /\ to_delete' = del
           /\ retained' = select_retained(state, del)
           /\ pending' = del
           /\ plog' = [plog EXCEPT !.before = images,
                                   !.cache = state.images,
                                   !.submitted = SortedByCreated(del)]
    /\ ppc' = "removing"
    /\ UNCHANGED <<notPrune, engineVars, stateVars>>

\* Whether some container, running or not, was made from the image.
ImageInUse(i) == \E c \in ContainerIds : containers[c].ImageID = i

EngineDropImage(i) == [j \in ImageIds \ {i} |-> images[j]]

\* A worker of the pool runs api_client.remove_image(image).  The engine
\* refuses an image that a container uses and may refuse for reasons of its
\* own; the error stays in the future, which nobody reads.
PruneRemoveImage(i, ok) ==
    /\ ppc = "removing"
    /\ i \in pending
    /\ pending' = pending \ {i}
    /\ IF ok /\ ~ImageInUse(i) /\ i \in ImageIds
       THEN /\ images' = EngineDropImage(i)
            /\ plog' = [plog EXCEPT !.ran = @ \cup {i}]
       ELSE /\ images' = images
            /\ plog' = [plog EXCEPT !.ran = @ \cup {i}, !.failed = @ \cup {i}]
    /\ UNCHANGED <<notPrune, nextId, containers, networks, stateVars, ppc, to_delete, retained>>

\* Lines 901-907: the pool is joined, the image cache replaced and the
\* document saved.
PruneFinish ==
    /\ ppc = "removing"
    /\ pending = {}
    /\ state' = [state EXCEPT !.images = retained]
    /\ save_state(state')
    /\ ppc' = "done"
    /\ UNCHANGED <<notPrune, engineVars, to_delete, retained, pending, plog>>

NextPrune ==
    \/ PruneStart
    \/ \E i \in pending, ok \in BOOLEAN : PruneRemoveImage(i, ok)
    \/ PruneFinish

\* The engines prune_images may find: images with or without tags, of
\* relevant and of other repositories, and at most one container.
PruneRepoSets ==
    { {}, {"hgmaster"}, {"centos"}, {"vct", "centos"}, {"hgweb", "hgmaster"} }

PruneEngines ==
    { [i \in 1..MaxPruneImages |->
          [RepoTags |-> {RepoTag(r, i) : r \in f[i]}, Created |-> i,
           History |-> <<Layer(i, "build")>>]] :
        f \in [1..MaxPruneImages -> PruneRepoSets] }

PruneContainers ==
    { <<>> } \cup
    { [c \in {MaxPruneImages + 1} |->
          [ImageID |-> i, Image |-> [form |-> f, n |-> i], Running |-> r]] :
        i \in 1..MaxPruneImages,
        f \in {"id", "short", "name"},
        r \in BOOLEAN }

PruneStates ==
    { [InitialState EXCEPT !.last["hgmaster"] = l,
                           !.images = [k \in {"hgmaster", "hgweb"} |->
                                           IF k = "hgmaster" THEN 1 ELSE m]] :
        l \in {NoImage} \cup 1..MaxPruneImages, m \in 1..MaxPruneImages }

(***************************************************************************)
(* clobber_needed                                                          *)
(***************************************************************************)

\* Ticks of the clock in a second: time.time() and os.path.getmtime carry
\* fractions of a second, which int() drops.
TicksPerSecond == 2

\* The clock stops here.
MaxTime == 1

\* int(time.time())
IntTime(t) == (t \div TicksPerSecond) * TicksPerSecond

\* A test that never asks for a clobber.
clobber_test_never(st, name) == FALSE

\* A comparison that takes an older file for a newer one.
clobber_test_reversed(st, name) ==
    /\ mtime[name] # NoTime
    /\ (st.clobber[name] = NoTime \/ mtime[name] < st.clobber[name])

\* Lines 301-321: the value clobber_needed returns.  A missing clobber file
\* never asks for a clobber; an existing one does when no time is recorded or
\* when it is newer than the recorded time.
clobber_test(st, name) ==
    /\ mtime[name] # NoTime
    /\ (st.clobber[name] = NoTime \/ mtime[name] > st.clobber[name])

\* Lines 317-319: the state clobber_needed leaves, the time of the observation
\* being recorded when it returns True.
clobber_record(st, name) ==
    IF clobber_test(st, name)
    THEN [st EXCEPT !.clobber[name] = IntTime(now)]
    ELSE st

ClockIdle ==
    /\ now = 0
    /\ mtime = [r \in ClobberRoles |-> NoTime]

(***************************************************************************)
(* ensure_built                                                            *)
(***************************************************************************)

\* The second component of a fresh tag, str(uuid.uuid1()): unique, here the
\* id of the image the tag is made for.
Uuid(id) == id

\* A check that finds no tag on any image.
NeverHasRepo(store, i, repo) == FALSE

\* Whether some tag of the image names the repository.
HasRepo(store, i, repo) == \E repotag \in store[i].RepoTags : repotag[1] = repo

\* A search that finds no image of any repository.
NoneWithRepo(seq, repo) == NoImage

\* A search that keeps the last image tagged in the repository, the oldest.
OldestWithRepo(seq, repo) ==
    LET hits == {k \in 1..Len(seq) : HasRepo(images, seq[k], repo)}
    IN  IF hits = {} THEN NoImage ELSE seq[Max(hits)]

\* The loops of lines 412-417 and 582-588 over the images, newest first: the
\* first image tagged in the repository, or NoImage.
RECURSIVE FirstWithRepo(_, _)
FirstWithRepo(seq, repo) ==
    IF seq = <<>> THEN NoImage
    ELSE IF HasRepo(images, Head(seq), repo) THEN Head(seq)
         ELSE FirstWithRepo(Tail(seq), repo)

\* The loop of lines 595-600 over the images, newest first: every image tagged
\* in the repository overwrites the entry, so the last one stays.
RECURSIVE LastWithRepo(_, _, _)
LastWithRepo(seq, repo, found) ==
    IF seq = <<>> THEN found
    ELSE LastWithRepo(Tail(seq), repo,
                      IF HasRepo(images, Head(seq), repo) THEN Head(seq) ELSE found)

\* Lines 513-528: the id a successful build reports.  The engine builds an
\* unchanged context to the image it built before, while it still has it.
built_image(name) ==
    IF build_cache[name] \in ImageIds THEN build_cache[name] ELSE nextId

\* Lines 530-545: the image store after a successful build: the image is
\* tagged name:<uuid> unless it carries a tag of the repository already.
built_store(name) ==
    LET full_image == built_image(name)
        store == IF full_image \in ImageIds THEN images
                 ELSE EngineNewImage(full_image, {}, "build", <<>>)
    IN  IF HasRepo(store, full_image, name) THEN store
        ELSE [store EXCEPT ![full_image].RepoTags =
                               @ \cup {RepoTag(name, Uuid(full_image))}]

built_next_id(name) ==
    IF built_image(name) \in ImageIds THEN nextId ELSE nextId + 1

(***************************************************************************)
(* ensure_images_built: the main thread                                    *)
(***************************************************************************)

\* Calls of ensure_images_built in one run.
MaxBuildCalls == 2

\* The roles of build_all_images (lines 811-816), in the order of sorted().
SortedRoles == <<"hgmaster", "hgweb", "ldap">>
DirectRoles == {"ldap"}
AnsibleRoles == {"hgmaster", "hgweb"}
Ansibles ==
    [n \in AnsibleRoles |->
        [playbook |-> IF n = "hgmaster" THEN "docker-hgmaster" ELSE "docker-hgweb",
         builder  |-> "centos7"]]

\* 'ansible-%s' % builder, and the builder directories of ensure_built.
BuilderName(builder) == IF builder = "centos7" THEN "ansible-centos7" ELSE "ansible-other"
BuildNames == DirectRoles \cup {"ansible-centos7", "vct"}

\* None where a builder, a future or a pool size is expected.
NoBuilder == ""
NoTask == 0
Unlimited == 0

\* A pool of as many workers as are wanted, whatever the limit.
unlimited_threadpoolexecutor(wanted_workers, max_workers) == wanted_workers

\* limited_threadpoolexecutor (util.py 168-194).
limited_threadpoolexecutor(wanted_workers, max_workers) ==
    LET wants_unlimited == wanted_workers < 1
        max_unlimited == max_workers = Unlimited \/ max_workers < 1
    IN  IF max_unlimited THEN wanted_workers
        ELSE IF wants_unlimited THEN max_workers
        ELSE IF wanted_workers < max_workers THEN wanted_workers ELSE max_workers

NoVct == [image |-> NoImage, existing_cid |-> NoImage, cid |-> NoImage,
          start |-> FALSE]

NoBuilds == [n \in BuildNames |-> 0]

NewBuildLog(args) ==
    [ builds        |-> NoBuilds, \* name -> calls of the engine's build API
      provisions    |-> {},       \* the calls of run_ansible
      clobber_seen  |-> state.clobber,
      prev_roles    |-> blog.roles,
      prev_result   |-> blog.result,
      prev_returned |-> blog.returned,
      touched       |-> blog.touched_since,
      touched_since |-> {},
      increased       |-> blog.increased_since,
      increased_since |-> {},
      roles         |-> args.names \cup args.ansibles,
      result        |-> EmptyMap,
      returned      |-> FALSE ]

NoBuildArgs ==
    [names |-> {}, ansibles |-> {}, existing |-> EmptyMap, use_last |-> FALSE,
     max_workers |-> Unlimited]

BuildIdle ==
    /\ bpc = "idle"
    /\ bargs = NoBuildArgs
    /\ bimages = EmptyMap
    /\ missing = {}
    /\ start_images = EmptyMap
    /\ vct = NoVct
    /\ workers = 0
    /\ tasks = <<>>
    /\ collected = {}
    /\ bcalls = 0
    /\ build_cache = [n \in BuildNames |-> NoImage]
    /\ blog = [builds |-> NoBuilds, provisions |-> {},
               clobber_seen |-> InitialState.clobber,
               prev_roles |-> {}, prev_result |-> EmptyMap,
               prev_returned |-> FALSE, touched |-> {}, touched_since |-> {},
               increased |-> {}, increased_since |-> {},
               roles |-> {}, result |-> EmptyMap, returned |-> FALSE]

\* A filter that trusts no entry of 'existing'.
known_images_none(existing, docker_images) == EmptyMap

\* A filter that trusts every entry of 'existing'.
known_images_all(existing, docker_images) == existing

\* Line 573: the entries of 'existing' whose image the engine still has.
known_images(existing, docker_images) ==
    [k \in {x \in DOMAIN existing : existing[x] \in docker_images} |-> existing[k]]

\* Lines 567-600: the images known, the missing roles, the fast path and the
\* candidate start images.
EnsureImagesBuilt(args) ==
    /\ bpc = "idle"
    /\ bcalls < MaxBuildCalls
    /\ bcalls' = bcalls + 1
    /\ bargs' = args
    /\ LET docker_images == ImageIds
           kept == known_images(args.existing, docker_images)
           wanted == (args.names \cup args.ansibles) \ DOMAIN kept
           last == IF args.use_last
                   THEN {r \in wanted : FirstWithRepo(get_sorted_images, r) # NoImage}
                   ELSE {}
           imgs == [k \in DOMAIN kept \cup last |->
                       IF k \in last THEN FirstWithRepo(get_sorted_images, k)
                       ELSE kept[k]]
           miss == wanted \ last
           missing_ansibles == miss \cap args.ansibles \cap AnsibleRoles
       IN  /\ bimages' = imgs
           /\ missing' = miss
           /\ IF miss = {}
              THEN /\ bpc' = "returned"
                   /\ start_images' = EmptyMap
                   /\ blog' = [NewBuildLog(args) EXCEPT !.result = imgs,
                                                        !.returned = TRUE]
              ELSE /\ bpc' = "vct"
                   /\ start_images' =
                          [r \in missing_ansibles |->
                              LastWithRepo(get_sorted_images, r, NoImage)]
                   /\ blog' = NewBuildLog(args)
    /\ vct' = NoVct
    /\ workers' = 0
    /\ tasks' = <<>>
    /\ collected' = {}
    /\ UNCHANGED <<notBuild, engineVars, stateVars, clockVars, build_cache>>

\* Lines 971-988, entered from line 625 with neither image nor cid: the
\* clobber check of the vct role, the inspection of the recorded container
\* and, with no container to reuse, the build of the vct image.
VctPrepare(built) ==
    /\ bpc = "vct"
    /\ LET forced == clobber_test(state, "vct")
           st1 == clobber_record(state, "vct")
           recorded == IF forced THEN NoImage ELSE state.vct_cid
           gone == recorded # NoImage /\ recorded \notin ContainerIds
           existing_cid == IF gone THEN NoImage ELSE recorded
           st2 == IF gone THEN [st1 EXCEPT !.vct_cid = NoImage] ELSE st1
       IN  /\ state' = st2
           /\ IF existing_cid # NoImage
              THEN /\ built
                   /\ vct' = [NoVct EXCEPT !.existing_cid = existing_cid]
                   /\ bpc' = "start"
                   /\ UNCHANGED <<images, nextId, build_cache, blog>>
              ELSE /\ blog' = [blog EXCEPT !.builds["vct"] = @ + 1]
                   /\ IF built
                      THEN /\ images' = built_store("vct")
                           /\ nextId' = built_next_id("vct")
                           /\ build_cache' = [build_cache EXCEPT !["vct"] = built_image("vct")]
                           /\ vct' = [NoVct EXCEPT !.image = built_image("vct")]
                           /\ bpc' = "start"
                      ELSE /\ bpc' = "raised"
                           /\ vct' = NoVct
                           /\ UNCHANGED <<images, nextId, build_cache>>
    /\ UNCHANGED <<notBuild, containers, networks, state_file, clockVars, bargs,
                   bimages, missing, start_images, workers, tasks, collected, bcalls>>

\* Lines 990-1041: the recorded container is taken or a new one created; it
\* is started and the source tree is copied into it.  Only then are the
\* container and its image recorded in the state and the state saved.  A
\* failed copy stops the container (line 1044) and the call raises.
VctStart(synced) ==
    /\ bpc = "start"
    /\ LET fresh == vct.existing_cid = NoImage
           cid == IF fresh THEN nextId ELSE vct.existing_cid
           made == IF fresh
                   THEN EngineNewContainer(cid, vct.image, IdRef(vct.image), FALSE)
                   ELSE containers
       IN  /\ nextId' = IF fresh THEN nextId + 1 ELSE nextId
           /\ IF synced
              THEN /\ containers' = [made EXCEPT ![cid].Running = TRUE]
                   /\ state' = [state EXCEPT !.last["vct"] = vct.image,
                                             !.vct_cid = cid]
                   /\ save_state(state')
                   /\ vct' = [vct EXCEPT !.cid = cid, !.start = TRUE]
                   /\ workers' = limited_threadpoolexecutor(Cardinality(missing),
                                                            bargs.max_workers)
                   /\ bpc' = "submit"
              ELSE /\ containers' = [made EXCEPT ![cid].Running = FALSE]
                   /\ UNCHANGED <<state, state_file, workers>>
                   /\ vct' = [vct EXCEPT !.cid = cid, !.start = TRUE]
                   /\ bpc' = "raised"
    /\ UNCHANGED <<notBuild, images, networks, clockVars, bargs, bimages, missing,
                   start_images, tasks, collected, bcalls, build_cache, blog>>

(***************************************************************************)
(* ensure_images_built: submission                                         *)
(***************************************************************************)

NewTask(kind, name, bf, builder, start_image) ==
    [ kind        |-> kind,          \* "build", "builder" or "ansible"
      name        |-> name,
      bf          |-> bf,            \* the future of the builder, or NoTask
      builder     |-> builder,
      start_image |-> start_image,
      status      |-> "queued",      \* queued, running, provisioning, done, failed
      from        |-> NoImage,       \* the image run_ansible made its container of
      cid         |-> NoImage,       \* that container
      result      |-> NoImage ]

\* A memo that never remembers.
builder_fs_forgets(builder_fs, builder) == NoTask

\* Line 648: builder_fs.get(builder).
builder_fs_get(builder_fs, builder) == builder_fs[builder]

\* Lines 630-660, one pass of the loop over sorted(missing) from position k.
\* acc carries the futures submitted, the memo builder_fs and self.state.
RECURSIVE SubmitFrom(_, _)
SubmitFrom(k, acc) ==
    IF k > Len(SortedRoles) THEN acc
    ELSE
      LET n == SortedRoles[k] IN
      IF n \notin missing THEN SubmitFrom(k + 1, acc)
      ELSE IF n \in bargs.names
      THEN SubmitFrom(k + 1,
               [acc EXCEPT !.tasks = Append(@, NewTask("build", n, NoTask,
                                                       NoBuilder, NoImage))])
      ELSE
        LET candidate == IF n \in DOMAIN start_images THEN start_images[n]
                         ELSE NoImage
            clobber == candidate # NoImage /\ clobber_test(acc.st, n)
            st == IF candidate # NoImage THEN clobber_record(acc.st, n)
                  ELSE acc.st
            start_image == IF clobber THEN NoImage ELSE candidate
            builder == IF candidate # NoImage /\ ~clobber THEN NoBuilder
                       ELSE Ansibles[n].builder
            known == IF builder = NoBuilder THEN NoTask
                     ELSE builder_fs_get(acc.builder_fs, builder)
            submits == builder # NoBuilder /\ known = NoTask
            fs == IF submits
                  THEN Append(acc.tasks,
                              NewTask("builder", BuilderName(builder), NoTask,
                                      NoBuilder, NoImage))
                  ELSE acc.tasks
            bf == IF builder = NoBuilder THEN NoTask
                  ELSE IF submits THEN Len(fs) ELSE known
            memo == IF submits THEN [acc.builder_fs EXCEPT ![builder] = bf]
                    ELSE acc.builder_fs
        IN  SubmitFrom(k + 1,
                [tasks      |-> Append(fs, NewTask("ansible", n, bf, builder,
                                                   start_image)),
                 builder_fs |-> memo,
                 st         |-> st])

Builders == {Ansibles[n].builder : n \in AnsibleRoles}

\* Lines 627-660: every missing role is handed to the pool.  clobber_needed
\* changes self.state; nothing saves it here.
Submit ==
    /\ bpc = "submit"
    /\ LET acc == SubmitFrom(1, [tasks      |-> <<>>,
                                 builder_fs |-> [b \in Builders |-> NoTask],
                                 st         |-> state])
       IN  /\ tasks' = acc.tasks
           /\ state' = acc.st
    /\ bpc' = "collect"
    /\ UNCHANGED <<notBuild, engineVars, state_file, clockVars, bargs, bimages,
                   missing, start_images, vct, workers, collected, bcalls,
                   build_cache, blog>>

(***************************************************************************)
(* ensure_images_built: the workers of the pool                            *)
(***************************************************************************)

Busy == {i \in DOMAIN tasks : tasks[i].status \in {"running", "provisioning"}}
Finished(i) == tasks[i].status \in {"done", "failed"}
PoolOpen == bpc \in {"collect", "unwind"}

\* A pool whose free worker takes any queued future.
StartAnyTask(i) ==
    /\ PoolOpen
    /\ i \in DOMAIN tasks
    /\ tasks[i].status = "queued"
    /\ Cardinality(Busy) < workers
    /\ tasks' = [tasks EXCEPT ![i].status = "running"]
    /\ UNCHANGED <<notBuild, engineVars, stateVars, clockVars, bpc, bargs, bimages,
                   missing, start_images, vct, workers, collected, bcalls,
                   build_cache, blog>>

\* ThreadPoolExecutor: a free worker takes the oldest queued future.
StartTask(i) ==
    /\ PoolOpen
    /\ i \in DOMAIN tasks
    /\ tasks[i].status = "queued"
    /\ \A j \in 1..(i - 1) : tasks[j].status # "queued"
    /\ Cardinality(Busy) < workers
    /\ tasks' = [tasks EXCEPT ![i].status = "running"]
    /\ UNCHANGED <<notBuild, engineVars, stateVars, clockVars, bpc, bargs, bimages,
                   missing, start_images, vct, workers, collected, bcalls,
                   build_cache, blog>>

\* build (lines 602-604) and the builder future (lines 650-652): ensure_built.
\* A role of 'names' is given use_last and takes the newest image of its
\* repository when there is one (lines 411-417); the builder is always built.
RunBuild(i, built) ==
    /\ PoolOpen
    /\ i \in DOMAIN tasks
    /\ tasks[i].kind \in {"build", "builder"}
    /\ tasks[i].status = "running"
    /\ LET name == tasks[i].name
           last == IF tasks[i].kind = "build" /\ bargs.use_last
                   THEN FirstWithRepo(get_sorted_images, name) ELSE NoImage
       IN  IF last # NoImage
           THEN /\ built
                /\ tasks' = [tasks EXCEPT ![i].status = "done", ![i].result = last]
                /\ UNCHANGED <<images, nextId, build_cache, blog>>
           ELSE /\ blog' = [blog EXCEPT !.builds[name] = @ + 1]
                /\ IF built
                   THEN /\ images' = built_store(name)
                        /\ nextId' = built_next_id(name)
                        /\ build_cache' = [build_cache EXCEPT ![name] = built_image(name)]
                        /\ tasks' = [tasks EXCEPT ![i].status = "done",
                                                  ![i].result = built_image(name)]
                   ELSE /\ tasks' = [tasks EXCEPT ![i].status = "failed"]
                        /\ UNCHANGED <<images, nextId, build_cache>>
    /\ UNCHANGED <<notBuild, containers, networks, stateVars, clockVars, bpc, bargs,
                   bimages, missing, start_images, vct, workers, collected, bcalls>>

\* Provisioning that does not wait for the builder's future.
builder_not_awaited(bf) == TRUE

\* Line 614: f_builder.result() returns once the builder's future is over.
builder_awaited(bf) == IF bf = NoTask THEN TRUE ELSE Finished(bf)

\* Line 721: the number of layers past which run_ansible changes its base.
HistoryLimit == 120

\* The positions of the layers made by /sync-and-build.
SyncLayers(history) ==
    {i \in DOMAIN history : history[i].CreatedBy = "/sync-and-build"}

\* A walk of the layers that stops at the first one made by /sync-and-build.
FirstSyncLayer(history, found) ==
    IF SyncLayers(history) = {} THEN found
    ELSE history[CHOOSE i \in SyncLayers(history) :
                    \A j \in SyncLayers(history) : i <= j].Id

\* Lines 723-725: the loop over the layers lo..hi, newest first: each layer
\* made by /sync-and-build becomes the start image, and the loop goes on.
\* The walk of lo..hi is the walk of its first half followed by the walk of
\* its second half, which starts from what the first half has found.
RECURSIVE SyncWalk(_, _, _, _)
SyncWalk(history, lo, hi, found) ==
    IF lo > hi THEN found
    ELSE IF lo = hi
         THEN IF history[lo].CreatedBy = "/sync-and-build"
              THEN history[lo].Id ELSE found
         ELSE LET mid == (lo + hi) \div 2
                  first_half == SyncWalk(history, lo, mid, found)
              IN  IF first_half = found
                  THEN SyncWalk(history, mid + 1, hi, found)
                  ELSE SyncWalk(history, mid + 1, hi, first_half)

\* Lines 723-725: the loop over the whole history keeps the last layer made
\* by /sync-and-build.
LastSyncLayer(history, found) ==
    SyncWalk(history, 1, Len(history), found)

\* Lines 720-725.
rebased(start_image) ==
    IF Len(images[start_image].History) > HistoryLimit
    THEN LastSyncLayer(images[start_image].History, start_image)
    ELSE start_image

\* build_ansible (lines 606-623) up to the start of the playbook's container
\* (line 735).  With a start image and use_last the start image is the result.
\* Otherwise the builder's future is awaited: its exception ends the task, its
\* result becomes the start image and run_ansible is called with no builder.
\* run_ansible refuses a call without a start image (lines 698-700), enters
\* vct_container with the running vct container (lines 971-997) and creates
\* and starts a container of the start image (lines 732-735).
AnsibleBegin(i) ==
    /\ PoolOpen
    /\ i \in DOMAIN tasks
    /\ tasks[i].kind = "ansible"
    /\ tasks[i].status = "running"
    /\ builder_awaited(tasks[i].bf)
    /\ LET t == tasks[i]
           start_image == IF t.bf # NoTask THEN tasks[t.bf].result
                          ELSE t.start_image
           call == [repository |-> t.name, start_image |-> start_image,
                    awaited |-> IF t.bf = NoTask THEN TRUE ELSE Finished(t.bf)]
           usable == /\ start_image \in ImageIds
                     /\ vct.cid \in ContainerIds
                     /\ containers[vct.cid].Running
       IN  IF t.start_image # NoImage /\ bargs.use_last
           THEN /\ tasks' = [tasks EXCEPT ![i].status = "done",
                                          ![i].result = t.start_image]
                /\ UNCHANGED <<containers, nextId, state, blog>>
           ELSE IF t.bf # NoTask /\ tasks[t.bf].status = "failed"
           THEN /\ tasks' = [tasks EXCEPT ![i].status = "failed"]
                /\ UNCHANGED <<containers, nextId, state, blog>>
           ELSE /\ blog' = [blog EXCEPT !.provisions = @ \cup {call}]
                /\ IF start_image = NoImage
                   THEN /\ tasks' = [tasks EXCEPT ![i].status = "failed"]
                        /\ UNCHANGED <<containers, nextId, state>>
                   ELSE /\ state' = clobber_record(state, "vct")
                        /\ IF usable
                           THEN /\ containers' =
                                       EngineNewContainer(nextId, rebased(start_image),
                                                          IdRef(rebased(start_image)), TRUE)
                                /\ nextId' = nextId + 1
                                /\ tasks' = [tasks EXCEPT
                                                ![i].status = "provisioning",
                                                ![i].from = rebased(start_image),
                                                ![i].cid = nextId]
                           ELSE /\ tasks' = [tasks EXCEPT ![i].status = "failed"]
                                /\ UNCHANGED <<containers, nextId>>
    /\ UNCHANGED <<notBuild, images, networks, state_file, clockVars, bpc, bargs,
                   bimages, missing, start_images, vct, workers, collected, bcalls,
                   build_cache>>

\* Lines 741-771 and 953-955: the playbook ends.  A non-zero exit code raises;
\* otherwise the container is committed as repository:<uuid>.  Either way the
\* container is removed on the way out of create_container.
AnsibleEnd(i, succeeded) ==
    /\ PoolOpen
    /\ i \in DOMAIN tasks
    /\ tasks[i].status = "provisioning"
    /\ containers' = EngineDropContainer(tasks[i].cid)
    /\ IF succeeded
       THEN /\ images' = EngineNewImage(nextId,
                                        {RepoTag(tasks[i].name, Uuid(nextId))},
                                        "/sync-and-build",
                                        images[tasks[i].from].History)
            /\ nextId' = nextId + 1
            /\ tasks' = [tasks EXCEPT ![i].status = "done", ![i].result = nextId]
       ELSE /\ tasks' = [tasks EXCEPT ![i].status = "failed"]
            /\ UNCHANGED <<images, nextId>>
    /\ UNCHANGED <<notBuild, networks, stateVars, clockVars, bpc, bargs, bimages,
                   missing, start_images, vct, workers, collected, bcalls,
                   build_cache, blog>>

(***************************************************************************)
(* ensure_images_built: collection and return                              *)
(***************************************************************************)

\* The futures of 'fs': the builders' futures are only in builder_fs.
InFs(i) == tasks[i].kind # "builder"

\* Lines 662-664: as_completed hands over a finished future; its result goes
\* into the mapping, its exception leaves the loop.
Collect(i) ==
    /\ bpc = "collect"
    /\ i \in DOMAIN tasks
    /\ InFs(i)
    /\ Finished(i)
    /\ i \notin collected
    /\ collected' = collected \cup {i}
    /\ IF tasks[i].status = "done"
       THEN /\ bimages' = [k \in DOMAIN bimages \cup {tasks[i].name} |->
                              IF k = tasks[i].name THEN tasks[i].result
                              ELSE bimages[k]]
            /\ bpc' = "collect"
       ELSE /\ bpc' = "unwind"
            /\ UNCHANGED bimages
    /\ UNCHANGED <<notBuild, engineVars, stateVars, clockVars, bargs, missing,
                   start_images, vct, workers, tasks, bcalls, build_cache, blog>>

\* A shutdown of the pool that waits for no future.
NoneAwaited == TRUE

\* ThreadPoolExecutor.__exit__: shutdown(wait=True) returns when every future
\* submitted, queued ones included, has run.
AllFinished == \A i \in DOMAIN tasks : Finished(i)

\* Leaving the with block of line 625: the pool is shut down, which waits for
\* every future, and the vct container is stopped (line 1044).
StopVct == containers' = [containers EXCEPT ![vct.cid].Running = FALSE]

\* Lines 662-666 with every future of fs collected.
BuildReturn ==
    /\ bpc = "collect"
    /\ \A i \in DOMAIN tasks : InFs(i) => i \in collected
    /\ AllFinished
    /\ StopVct
    /\ bpc' = "returned"
    /\ blog' = [blog EXCEPT !.result = bimages, !.returned = TRUE]
    /\ UNCHANGED <<notBuild, images, nextId, networks, stateVars, clockVars, bargs,
                   bimages, missing, start_images, vct, workers, tasks, collected,
                   bcalls, build_cache>>

\* The exception of a future leaves the with block the same way.
BuildUnwound ==
    /\ bpc = "unwind"
    /\ AllFinished
    /\ StopVct
    /\ bpc' = "raised"
    /\ UNCHANGED <<notBuild, images, nextId, networks, stateVars, clockVars, bargs,
                   bimages, missing, start_images, vct, workers, tasks, collected,
                   bcalls, build_cache, blog>>

\* The caller goes on with the mapping; the locals of the call are gone.  An
\* exception is caught nowhere in the module and ends the run.
BuildDone ==
    /\ bpc = "returned"
    /\ bpc' = "idle"
    /\ bargs' = NoBuildArgs
    /\ bimages' = EmptyMap
    /\ missing' = {}
    /\ start_images' = EmptyMap
    /\ vct' = NoVct
    /\ workers' = 0
    /\ tasks' = <<>>
    /\ collected' = {}
    /\ UNCHANGED <<notBuild, engineVars, stateVars, clockVars, bcalls, build_cache,
                   blog>>

(***************************************************************************)
(* The environment of the builds                                           *)
(***************************************************************************)

\* Time passes between the calls; the clock reads 0 at the first one.
Tick ==
    /\ bpc = "idle"
    /\ bcalls >= 1
    /\ now < MaxTime
    /\ now' = now + 1
    /\ UNCHANGED <<notBuild, engineVars, stateVars, mtime, buildVars>>

TouchRoles == {"hgmaster"}

\* Somebody touches testing/clobber.<name> between the calls.
Touch(name) ==
    /\ bpc = "idle"
    /\ mtime[name] < now
    /\ mtime' = [mtime EXCEPT ![name] = now]
    /\ blog' = [blog EXCEPT
                   !.touched_since = @ \cup {name},
                   !.increased_since = IF mtime[name] # NoTime THEN @ \cup {name}
                                       ELSE @]
    /\ UNCHANGED <<notBuild, engineVars, stateVars, now, bpc, bargs, bimages,
                   missing, start_images, vct, workers, tasks, collected, bcalls,
                   build_cache>>

WorkerChoices == {Unlimited, 1}
RoleChoices ==
    { [names |-> {"ldap"}, ansibles |-> {}],
      [names |-> {}, ansibles |-> {"hgmaster"}],
      [names |-> {"ldap"}, ansibles |-> {"hgweb"}],
      [names |-> {}, ansibles |-> AnsibleRoles] }

\* A mapping the caller kept from an earlier run, as build_hgmo takes it from
\* the state: its image may be gone from the engine since.
RememberedImages == [k \in {"hgmaster"} |-> 1]

BuildArgs ==
    { [names |-> rs.names, ansibles |-> rs.ansibles, existing |-> ex,
       use_last |-> ul, max_workers |-> mw] :
        rs \in RoleChoices,
        ex \in {EmptyMap, blog.result, RememberedImages},
        ul \in BOOLEAN, mw \in WorkerChoices }

NextBuild ==
    \/ \E args \in BuildArgs : EnsureImagesBuilt(args)
    \/ \E built \in BOOLEAN : VctPrepare(built)
    \/ \E synced \in BOOLEAN : VctStart(synced)
    \/ Submit
    \/ \E i \in DOMAIN tasks : StartTask(i)
    \/ \E i \in DOMAIN tasks, built \in BOOLEAN : RunBuild(i, built)
    \/ \E i \in DOMAIN tasks : AnsibleBegin(i)
    \/ \E i \in DOMAIN tasks, succeeded \in BOOLEAN : AnsibleEnd(i, succeeded)
    \/ \E i \in DOMAIN tasks : Collect(i)
    \/ BuildReturn
    \/ BuildUnwound
    \/ BuildDone
    \/ Tick
    \/ \E name \in TouchRoles : Touch(name)

(***************************************************************************)
(* run_ansible                                                             *)
(***************************************************************************)

\* Calls of run_ansible in one run.
MaxAnsibleCalls == 2

\* Times the attach stream may end while the container still runs.
MaxEarlyEnds == 2

NoAnsibleArgs ==
    [repository |-> "", builder |-> NoBuilder, start_image |-> NoImage,
     vct_image |-> NoImage, vct_cid |-> NoImage]

NoAnsibleLocals ==
    [ start_image  |-> NoImage,   \* the image the container is made of
      image        |-> NoImage,   \* vct_container: image
      vcid         |-> NoImage,   \* vct_container: cid
      start        |-> FALSE,     \* vct_container: start
      cid          |-> NoImage,   \* the container of the playbook
      exit_code    |-> 0,         \* State.ExitCode of that container
      early_ends   |-> 0,         \* attach streams that ended early
      result       |-> <<>> ]     \* (iid, repository, tag)

NoAnsibleLog ==
    [ calls    |-> 0,
      error    |-> "none",
      images   |-> <<>>,          \* the engine and the state at the call
      containers |-> <<>>,
      state    |-> InitialState,
      file     |-> InitialState,
      started  |-> {},            \* containers started, synced to, stopped
      synced   |-> {},
      stopped  |-> {},
      vct_built |-> FALSE,        \* vct_container built the vct image
      attaches |-> 0,             \* calls of attach
      seen_stopped |-> FALSE ]    \* an inspection reported the container stopped

AnsibleIdle ==
    /\ apc = "idle"
    /\ aargs = NoAnsibleArgs
    /\ alocal = NoAnsibleLocals
    /\ alog = NoAnsibleLog

\* A check that only refuses a call with neither argument.
args_refused_if_neither(builder, start_image) ==
    builder = NoBuilder /\ start_image = NoImage

\* Lines 698-703: the calls run_ansible refuses.
args_refused(builder, start_image) ==
    \/ builder = NoBuilder /\ start_image = NoImage
    \/ builder # NoBuilder /\ start_image # NoImage

\* Lines 698-705: the arguments are checked before anything else.
RunAnsible(args) ==
    /\ apc = "idle"
    /\ alog.calls < MaxAnsibleCalls
    /\ aargs' = args
    /\ alocal' = [NoAnsibleLocals EXCEPT !.start_image = args.start_image]
    /\ alog' = [NoAnsibleLog EXCEPT !.calls = alog.calls + 1,
                                    !.images = images,
                                    !.containers = containers,
                                    !.state = state,
                                    !.file = state_file,
                                    !.error = IF args_refused(args.builder,
                                                              args.start_image)
                                              THEN "argument" ELSE "none"]
    /\ apc' = IF args_refused(args.builder, args.start_image) THEN "raised"
              ELSE "base"
    /\ UNCHANGED <<notAnsible, engineVars, stateVars, clockVars, build_cache>>

\* Lines 707-725: with a builder its image is built and becomes the start
\* image; the history of the start image is read and a long one changes the
\* base.
AnsibleBase(built) ==
    /\ apc = "base"
    /\ IF aargs.builder # NoBuilder
       THEN IF built
            THEN /\ images' = built_store(BuilderName(aargs.builder))
                 /\ nextId' = built_next_id(BuilderName(aargs.builder))
                 /\ build_cache' = [build_cache EXCEPT
                        ![BuilderName(aargs.builder)] =
                            built_image(BuilderName(aargs.builder))]
                 /\ alocal' = [alocal EXCEPT !.start_image =
                                  built_image(BuilderName(aargs.builder))]
                 /\ apc' = "vct"
                 /\ UNCHANGED alog
            ELSE /\ apc' = "raised"
                 /\ alog' = [alog EXCEPT !.error = "build"]
                 /\ UNCHANGED <<images, nextId, build_cache, alocal>>
       ELSE /\ built
            /\ IF aargs.start_image \in ImageIds
               THEN /\ alocal' = [alocal EXCEPT !.start_image =
                                     rebased(aargs.start_image)]
                    /\ apc' = "vct"
                    /\ UNCHANGED alog
               ELSE /\ apc' = "raised"
                    /\ alog' = [alog EXCEPT !.error = "history"]
                    /\ UNCHANGED alocal
            /\ UNCHANGED <<images, nextId, build_cache>>
    /\ UNCHANGED <<notAnsible, containers, networks, stateVars, clockVars, aargs>>

\* vct_container, line 1044: the container is stopped if this scope started
\* it.
\* A scope that leaves its container running.
VctLeftRunning(cs) == cs

VctStopped(cs) ==
    IF alocal.start THEN [cs EXCEPT ![alocal.vcid].Running = FALSE] ELSE cs

VctStopLogged(log) ==
    IF alocal.start THEN [log EXCEPT !.stopped = @ \cup {alocal.vcid}] ELSE log

\* vct_container, lines 971-1010, entered from line 727 with the image and
\* the container id of the caller.  A clobber of vct forgets the recorded
\* container and the image; a recorded container that is gone is forgotten;
\* with nothing to go by, the vct image is built.  The caller's container
\* must be running; otherwise the recorded container is taken, or a new one
\* is created, to be started.
\* A choice that prefers the recorded container to the caller's.
vct_mode_recorded_first(cid, existing_cid) ==
    IF existing_cid # NoImage THEN 2 ELSE IF cid # NoImage THEN 1 ELSE 3

\* Lines 992-1010: the mode of vct_container: 1 with a container of the
\* caller, 2 with a recorded container, 3 otherwise.
vct_mode(cid, existing_cid) ==
    IF cid # NoImage THEN 1 ELSE IF existing_cid # NoImage THEN 2 ELSE 3

AnsibleVctEnter(built) ==
    /\ apc = "vct"
    /\ LET forced == clobber_test(state, "vct")
           st1 == clobber_record(state, "vct")
           cid == aargs.vct_cid
           recorded == IF forced THEN NoImage ELSE state.vct_cid
           given == IF forced THEN NoImage ELSE aargs.vct_image
           gone == cid = NoImage /\ recorded # NoImage
                   /\ recorded \notin ContainerIds
           existing_cid == IF gone THEN NoImage ELSE recorded
           st2 == IF gone THEN [st1 EXCEPT !.vct_cid = NoImage] ELSE st1
           builds == given = NoImage /\ cid = NoImage /\ existing_cid = NoImage
           image == IF builds THEN built_image("vct") ELSE given
           store == IF builds THEN built_store("vct") ELSE images
           next == IF builds THEN built_next_id("vct") ELSE nextId
           mode == vct_mode(cid, existing_cid)
           log == [alog EXCEPT !.vct_built = builds]
       IN  /\ state' = st2
           /\ IF builds /\ ~built
              THEN /\ apc' = "raised"
                   /\ alog' = [alog EXCEPT !.error = "build"]
                   /\ UNCHANGED <<images, nextId, build_cache, containers, alocal>>
              ELSE
                /\ built
                /\ images' = store
                /\ build_cache' = IF builds
                                  THEN [build_cache EXCEPT !["vct"] = image]
                                  ELSE build_cache
                /\ IF mode = 1
                   THEN /\ IF cid \in ContainerIds /\ containers[cid].Running
                           THEN /\ apc' = "create"
                                /\ alog' = log
                           ELSE /\ apc' = "raised"
                                /\ alog' = [log EXCEPT !.error = "vct"]
                        /\ alocal' = [alocal EXCEPT !.image = image, !.vcid = cid]
                        /\ nextId' = next
                        /\ UNCHANGED containers
                   ELSE IF mode = 2
                   THEN /\ alocal' = [alocal EXCEPT !.image = image,
                                                    !.vcid = existing_cid,
                                                    !.start = TRUE]
                        /\ apc' = "sync"
                        /\ alog' = log
                        /\ nextId' = next
                        /\ UNCHANGED containers
                   ELSE IF image \in DOMAIN store
                   THEN /\ containers' = EngineNewContainer(next, image,
                                                            IdRef(image), FALSE)
                        /\ nextId' = next + 1
                        /\ alocal' = [alocal EXCEPT !.image = image,
                                                    !.vcid = next,
                                                    !.start = TRUE]
                        /\ apc' = "sync"
                        /\ alog' = log
                   ELSE /\ apc' = "raised"
                        /\ alog' = [log EXCEPT !.error = "vct"]
                        /\ alocal' = [alocal EXCEPT !.image = image]
                        /\ nextId' = next
                        /\ UNCHANGED containers
    /\ UNCHANGED <<notAnsible, networks, state_file, clockVars, aargs>>

\* vct_container, lines 1012-1044 in modes 2 and 3: the container is started
\* and the source tree copied into it; the state then records the image and
\* the container and is saved.  A failed copy stops the container and raises.
AnsibleVctSync(synced) ==
    /\ apc = "sync"
    /\ IF synced
       THEN /\ containers' = [containers EXCEPT ![alocal.vcid].Running = TRUE]
            /\ state' = [state EXCEPT !.last["vct"] = alocal.image,
                                      !.vct_cid = alocal.vcid]
            /\ save_state(state')
            /\ alog' = [alog EXCEPT !.started = @ \cup {alocal.vcid},
                                    !.synced = @ \cup {alocal.vcid}]
            /\ apc' = "create"
       ELSE /\ containers' = [containers EXCEPT ![alocal.vcid].Running = FALSE]
            /\ alog' = [alog EXCEPT !.started = @ \cup {alocal.vcid},
                                    !.stopped = @ \cup {alocal.vcid},
                                    !.error = "sync"]
            /\ apc' = "raised"
            /\ UNCHANGED <<state, state_file>>
    /\ UNCHANGED <<notAnsible, images, nextId, networks, clockVars, build_cache,
                   aargs, alocal>>

\* Lines 729-742: the container of the playbook is created from the start
\* image and started, and its output attached to.  A creation the engine
\* refuses leaves the scope of vct_container.
AnsibleCreate(created) ==
    /\ apc = "create"
    /\ IF created
       THEN /\ containers' = EngineNewContainer(nextId, alocal.start_image,
                                                IdRef(alocal.start_image), TRUE)
            /\ nextId' = nextId + 1
            /\ alocal' = [alocal EXCEPT !.cid = nextId]
            /\ alog' = [alog EXCEPT !.attaches = 1]
            /\ apc' = "attached"
       ELSE /\ containers' = VctStopped(containers)
            /\ alog' = [VctStopLogged(alog) EXCEPT !.error = "create"]
            /\ apc' = "raised"
            /\ UNCHANGED <<nextId, alocal>>
    /\ UNCHANGED <<notAnsible, images, networks, stateVars, clockVars, build_cache,
                   aargs>>

\* The playbook comes to its end in the container.
ExitCodes == {0, 1}

PlaybookEnds(code) ==
    /\ apc = "attached"
    /\ containers[alocal.cid].Running
    /\ containers' = [containers EXCEPT ![alocal.cid].Running = FALSE]
    /\ alocal' = [alocal EXCEPT !.exit_code = code]
    /\ UNCHANGED <<notAnsible, images, nextId, networks, stateVars, clockVars,
                   build_cache, apc, aargs, alog>>

\* An inspection that takes every end of the stream for the end of the
\* container.
stream_end_is_stop(cid) == TRUE

\* Line 750-752: what the inspection after a stream says of the container.
observed_stopped(cid) == ~containers[cid].Running

\* Lines 741-757: the attach stream ends, because the container stopped or
\* early, on a network timeout.  The container is inspected: if it is not
\* running the loop is left, otherwise attach is called again.
AttachStreamEnds ==
    /\ apc = "attached"
    /\ IF observed_stopped(alocal.cid)
       THEN /\ apc' = "left"
            /\ alog' = [alog EXCEPT !.seen_stopped = ~containers[alocal.cid].Running]
            /\ UNCHANGED alocal
       ELSE /\ alocal.early_ends < MaxEarlyEnds
            /\ alocal' = [alocal EXCEPT !.early_ends = @ + 1]
            /\ alog' = [alog EXCEPT !.attaches = @ + 1]
            /\ apc' = "attached"
    /\ UNCHANGED <<notAnsible, engineVars, stateVars, clockVars, build_cache, aargs>>

\* A reading of the exit code that takes every run for a success.
exit_code_ignored(code) == TRUE

\* Line 759.
playbook_succeeded(code) == code = 0

\* Lines 759-771, 953-955 and 1042-1044: a non-zero exit code raises;
\* otherwise the container is committed as repository:<uuid> and the image,
\* the repository and the tag are the result.  On the way out the container
\* of the playbook is removed and the scope of vct_container left.
AnsibleFinish ==
    /\ apc = "left"
    /\ containers' = VctStopped(EngineDropContainer(alocal.cid))
    /\ IF playbook_succeeded(alocal.exit_code)
       THEN /\ images' = EngineNewImage(nextId,
                                        {RepoTag(aargs.repository, Uuid(nextId))},
                                        "/sync-and-build",
                                        images[alocal.start_image].History)
            /\ nextId' = nextId + 1
            /\ alocal' = [alocal EXCEPT !.result =
                             <<nextId, aargs.repository, Uuid(nextId)>>]
            /\ alog' = VctStopLogged(alog)
            /\ apc' = "returned"
       ELSE /\ alog' = [VctStopLogged(alog) EXCEPT !.error = "ansible"]
            /\ apc' = "raised"
            /\ UNCHANGED <<images, nextId, alocal>>
    /\ UNCHANGED <<notAnsible, networks, stateVars, clockVars, build_cache, aargs>>

\* The caller goes on with the result; an exception ends the run.
AnsibleDone ==
    /\ apc = "returned"
    /\ apc' = "idle"
    /\ UNCHANGED <<notAnsible, engineVars, stateVars, clockVars, build_cache,
                   aargs, alocal, alog>>

AnsibleArgs ==
    { [repository |-> "hgmaster", builder |-> b, start_image |-> s,
       vct_image |-> v, vct_cid |-> c] :
        b \in {NoBuilder, "centos7"}, s \in {NoImage, 1},
        v \in {NoImage, 2}, c \in {NoImage, 3} }

NextAnsible ==
    \/ \E args \in AnsibleArgs : RunAnsible(args)
    \/ \E built \in BOOLEAN : AnsibleBase(built)
    \/ \E built \in BOOLEAN : AnsibleVctEnter(built)
    \/ \E synced \in BOOLEAN : AnsibleVctSync(synced)
    \/ \E created \in BOOLEAN : AnsibleCreate(created)
    \/ \E code \in ExitCodes : PlaybookEnds(code)
    \/ AttachStreamEnds
    \/ AnsibleFinish
    \/ AnsibleDone

(***************************************************************************)
(* save_state, step by step                                                *)
(***************************************************************************)

\* Rewrites of the state file in one run.
MaxSaves == 2

Chunk(key, value) == [key |-> key, value |-> value]

\* json.dump(self.state, fh, indent=4, sort_keys=True): the text of a
\* document, in the pieces the encoder hands to fh.write, keys in order.
Serialize(doc) ==
    << Chunk("{", 0),
       Chunk("clobber", doc.clobber),
       Chunk("images", doc.images),
       Chunk("last", doc.last),
       Chunk("vct-cid", doc.vct_cid),
       Chunk("}", 0) >>

\* json.load accepts a text that is a whole document.
Loadable(text) ==
    /\ Len(text) = 6
    /\ text[1].key = "{"
    /\ text[6].key = "}"

\* json.load (lines 169-171).
Parse(text) ==
    [ images  |-> text[3].value,
      last    |-> text[4].value,
      clobber |-> text[2].value,
      vct_cid |-> text[5].value ]

ClosedFile == [open |-> FALSE, written |-> <<>>]

\* The text in the state file: what the handle has written since open()
\* truncated the file, or else the document of the last completed rewrite.
StateFileText ==
    IF state_fh.open THEN state_fh.written ELSE Serialize(state_file)

SaveIdle ==
    /\ spc = "idle"
    /\ state_fh = ClosedFile
    /\ saves = 0

\* An operation records an image in the state and goes on to save_state
\* (lines 788-792, 1037-1039).
StateChange(role, image) ==
    /\ spc = "idle"
    /\ saves < MaxSaves
    /\ saves' = saves + 1
    /\ state' = [state EXCEPT !.last[role] = image]
    /\ spc' = "save"
    /\ UNCHANGED <<notSave, state_file, state_fh>>

\* Line 910: open(self._state_path, 'wb') truncates the file.
SaveOpen ==
    /\ spc = "save"
    /\ state_fh' = [open |-> TRUE, written |-> <<>>]
    /\ spc' = "dump"
    /\ UNCHANGED <<notSave, stateVars, saves>>

\* Line 911: json.dump writes the next piece of the document.
SaveDump ==
    /\ spc = "dump"
    /\ Len(state_fh.written) < Len(Serialize(state))
    /\ state_fh' = [state_fh EXCEPT !.written =
                       Append(@, Serialize(state)[Len(@) + 1])]
    /\ UNCHANGED <<notSave, stateVars, spc, saves>>

\* Line 910, the end of the with block: the file is closed with the whole
\* document in it.
SaveClose ==
    /\ spc = "dump"
    /\ state_fh.written = Serialize(state)
    /\ save_state(Parse(state_fh.written))
    /\ state_fh' = ClosedFile
    /\ spc' = "idle"
    /\ UNCHANGED <<notSave, state, saves>>

\* The process dies inside save_state; the file stays as written so far.
Crash ==
    /\ spc \in {"save", "dump"}
    /\ spc' = "crashed"
    /\ UNCHANGED <<notSave, stateVars, state_fh, saves>>

\* Lines 169-171: the next process loads the state file; json.load raises on
\* a text that is not a whole document.
Load ==
    /\ spc = "crashed"
    /\ IF Loadable(StateFileText)
       THEN /\ state' = Parse(StateFileText)
            /\ save_state(Parse(StateFileText))
            /\ state_fh' = ClosedFile
            /\ spc' = "idle"
       ELSE /\ spc' = "unloadable"
            /\ UNCHANGED <<stateVars, state_fh>>
    /\ UNCHANGED <<notSave, saves>>

SavedRoles == {"hgmaster", "hgweb"}
SavedImages == {1, 2}

NextSave ==
    \/ \E role \in SavedRoles, image \in SavedImages : StateChange(role, image)
    \/ SaveOpen
    \/ SaveDump
    \/ SaveClose
    \/ Crash
    \/ Load

(***************************************************************************)
(* get_code_coverage (lines 1114-1168), one coverage file at a time        *)
(***************************************************************************)

\* Coverage files handled in one run: each is handled on its own.
MaxCoverageCalls == 1

\* Source files named in a coverage file, and the local names a filemap
\* gives them.  NoName is what "not newname" is true of: the None that
\* filemap.get returns for a missing key, and the empty string.
ContainerFiles == {"a", "b"}
NoName == ""
LocalNames == {NoName, "x", "y"}

\* The pickled lists: line numbers of a file, arc pairs of a file.
LineLists == {<<>>, <<1>>, <<1, 2>>, <<2, 2>>}
ArcLists == {<< <<1, 2>> >>}

PartialMaps(keys, values) == UNION {[S -> values] : S \in SUBSET keys}

\* dict.fromkeys(linenos, None): the keys of the resulting dict.
fromkeys(list) == {list[i] : i \in DOMAIN list}

\* filemap.get(f)
filemap_get(filemap, f) == IF f \in DOMAIN filemap THEN filemap[f] ELSE NoName

\* lines[newname] = ...
dict_set(d, key, value) ==
    [k \in DOMAIN d \cup {key} |-> IF k = key THEN value ELSE d[k]]

\* The orders in which .items() can walk a dict with these keys.
Orders(keys) ==
    {o \in [1..Cardinality(keys) -> keys] :
        \A i, j \in DOMAIN o : i # j => o[i] # o[j]}

\* Lines 1142-1151 and 1153-1162: the loop over the entries of one dict,
\* from the entry at the head of order on.
RECURSIVE remap(_, _, _, _)
remap(entries, filemap, order, acc) ==
    IF order = <<>>
    THEN acc
    ELSE LET f == Head(order)
             got == filemap_get(filemap, f)
         IN IF got = NoName /\ filemap # EmptyMap
            THEN remap(entries, filemap, Tail(order), acc)
            ELSE remap(entries, filemap, Tail(order),
                       dict_set(acc, IF got = NoName THEN f ELSE got,
                                fromkeys(entries[f])))

NoRecord == [emitted |-> FALSE, lines |-> EmptyMap, arcs |-> EmptyMap]

\* The body of the loop of get_code_coverage for one member of /coverage.
get_code_coverage(member, filemap, line_order, arc_order) ==
    LET fm == IF filemap.given THEN filemap.map ELSE EmptyMap
        lines == remap(member.lines, fm, line_order, EmptyMap)
        arcs == remap(member.arcs, fm, arc_order, EmptyMap)
    IN IF ~member.is_coverage
       THEN NoRecord
       ELSE IF lines = EmptyMap /\ arcs = EmptyMap
            THEN NoRecord
            ELSE [emitted |-> TRUE, lines |-> lines, arcs |-> arcs]

NoMember == [is_coverage |-> FALSE, lines |-> EmptyMap, arcs |-> EmptyMap]
NoFilemap == [given |-> FALSE, map |-> EmptyMap]

CoverageIdle ==
    /\ cov_calls = 0
    /\ cov_in = [member |-> NoMember, filemap |-> NoFilemap]
    /\ cov_out = NoRecord

Members ==
    [ is_coverage : BOOLEAN,
      lines : PartialMaps(ContainerFiles, LineLists),
      arcs : PartialMaps(ContainerFiles, ArcLists) ]

Filemaps ==
    {NoFilemap} \cup
    {[given |-> TRUE, map |-> fm] : fm \in PartialMaps(ContainerFiles, LocalNames)}

GetCodeCoverage(member, filemap) ==
    /\ cov_calls < MaxCoverageCalls
    /\ cov_calls' = cov_calls + 1
    /\ cov_in' = [member |-> member, filemap |-> filemap]
    /\ \E line_order \in Orders(DOMAIN member.lines),
          arc_order \in Orders(DOMAIN member.arcs) :
          cov_out' = get_code_coverage(member, filemap, line_order, arc_order)
    /\ UNCHANGED notCoverage

NextCoverage ==
    \E member \in Members, filemap \in Filemaps : GetCodeCoverage(member, filemap)


(***************************************************************************)
(* ensure_built (lines 384-547), step by step                              *)
(***************************************************************************)

\* Calls of ensure_built in one run.
MaxEnsureCalls == 2

\* What the call finds at builder-<name>: whether the directory exists,
\* whether a .dockerignore lies under it, the FROM secure: line of its
\* Dockerfile (none, one with a 'sha256 ' digest, one with another digest)
\* and its include directive (none, one naming a path that exists under the
\* source tree, one naming a path that does not).
BuilderDirs ==
    [ exists       : BOOLEAN,
      dockerignore : BOOLEAN,
      secure       : {"none", "sha256", "md5"},
      include      : {"none", "present", "absent"} ]

NoDir == [exists |-> FALSE, dockerignore |-> FALSE, secure |-> "none",
          include |-> "none"]

\* An item of the stream api_client.build yields: with or without a 'stream'
\* key; the text is a step of the build, 'Successfully built <id>' or
\* 'Successfully tagged <name>'; the id is printed as 12 hex digits or
\* otherwise.
StreamItem(key, text, id, hex12) ==
    [key |-> key, text |-> text, id |-> id, hex12 |-> hex12]

Step == StreamItem("stream", "step", NoImage, FALSE)
Aux == StreamItem("aux", "step", NoImage, FALSE)
Tagged == StreamItem("stream", "tagged", NoImage, FALSE)
Built(id) == StreamItem("stream", "built", id, TRUE)
BuiltLong(id) == StreamItem("stream", "built", id, FALSE)

\* The streams of a build that made image id: the marker may be followed by
\* a line of the engine's own tagging, or be printed in another form.
BuiltStreams(id) ==
    { <<Step, Aux, Built(id)>>,
      <<Step, Built(id), Tagged>>,
      <<Step, BuiltLong(id), Tagged>> }

\* The streams of a build that failed.
FailedStreams == { <<Step>>, <<Step, Aux>> }

\* A reading that takes any line for the marker.
any_line_is_success(item) == TRUE

\* Lines 516-525: the item has a 'stream' key and its text matches
\* '^Successfully built ([a-f0-9]{12})$'.
is_success_line(item) ==
    /\ item.key = "stream"
    /\ item.text = "built"
    /\ item.hex12

NoEnsureArgs == [name |-> "", use_last |-> FALSE]

NewEnsureLog ==
    [ calls       |-> 0,
      build_calls |-> 0,          \* submissions to the engine's build API
      imports     |-> 0,          \* calls of import_base_image
      stream      |-> <<>>,       \* the whole stream of the build
      tagged      |-> {},         \* (image, repotag) of the tags applied
      had_tag     |-> FALSE,      \* have_tag of line 531
      images      |-> <<>>,       \* the engine at the call
      result      |-> NoImage,
      reused      |-> FALSE,      \* returned by the use_last loop
      error       |-> "none",
      error_names |-> "" ]        \* the name in the message of the exception

EnsureIdle ==
    /\ epc = "idle"
    /\ eargs = NoEnsureArgs
    /\ edir = NoDir
    /\ estream = <<>>
    /\ elog = NewEnsureLog

Raised(log, error, names) == [log EXCEPT !.error = error, !.error_names = names]

\* Lines 411-417: with use_last the newest image tagged in the repository is
\* returned at once.
EnsureBuilt(args, dir) ==
    /\ epc = "idle"
    /\ elog.calls < MaxEnsureCalls
    /\ eargs' = args
    /\ edir' = dir
    /\ estream' = <<>>
    /\ LET last == IF args.use_last
                   THEN FirstWithRepo(get_sorted_images, args.name)
                   ELSE NoImage
           log == [NewEnsureLog EXCEPT !.calls = elog.calls + 1,
                                       !.images = images]
       IN  IF last # NoImage
           THEN /\ elog' = [log EXCEPT !.result = last, !.reused = TRUE]
                /\ epc' = "returned"
           ELSE /\ elog' = log
                /\ epc' = "dockerfile"
    /\ UNCHANGED <<notEnsure, engineVars, build_cache>>

\* The image import_base_image returns: the one tagged for the url and the
\* digest, imported if the engine has none.
SecureTag == RepoTag("secure-base", "centos7")

\* Lines 419-444: the builder directory must exist; the Dockerfile is read,
\* and a FROM secure: line must carry a 'sha256 ' digest and is resolved by
\* import_base_image, which may raise.
EbReadDockerfile(imported) ==
    /\ epc = "dockerfile"
    /\ IF ~edir.exists
       THEN /\ imported
            /\ elog' = Raised(elog, "unknown", eargs.name)
            /\ epc' = "raised"
            /\ UNCHANGED <<images, nextId>>
       ELSE IF edir.secure = "md5"
       THEN /\ imported
            /\ elog' = Raised(elog, "digest", "")
            /\ epc' = "raised"
            /\ UNCHANGED <<images, nextId>>
       ELSE IF edir.secure = "sha256"
       THEN IF imported
            THEN /\ IF \E i \in ImageIds : SecureTag \in images[i].RepoTags
                    THEN UNCHANGED <<images, nextId>>
                    ELSE /\ images' = EngineNewImage(nextId, {SecureTag},
                                                     "import", <<>>)
                         /\ nextId' = nextId + 1
                 /\ elog' = [elog EXCEPT !.imports = @ + 1]
                 /\ epc' = "context"
            ELSE /\ elog' = Raised([elog EXCEPT !.imports = @ + 1], "import", "")
                 /\ epc' = "raised"
                 /\ UNCHANGED <<images, nextId>>
       ELSE /\ imported
            /\ epc' = "context"
            /\ UNCHANGED <<images, nextId, elog>>
    /\ UNCHANGED <<notEnsure, containers, networks, build_cache, eargs, edir,
                   estream>>

\* An assembly that archives whatever it finds and checks nothing.
EbAssembleUnchecked ==
    /\ epc = "context"
    /\ epc' = "build"
    /\ UNCHANGED <<notEnsure, engineVars, build_cache, eargs, edir, estream, elog>>

\* Lines 448-499: the archive is put together; a .dockerignore under the
\* directory raises, and so does an include of a path that does not exist.
EbAssemble ==
    /\ epc = "context"
    /\ IF edir.dockerignore
       THEN /\ elog' = Raised(elog, "dockerignore", "")
            /\ epc' = "raised"
       ELSE IF edir.include = "absent"
       THEN /\ elog' = Raised(elog, "include", "")
            /\ epc' = "raised"
       ELSE /\ epc' = "build"
            /\ UNCHANGED elog
    /\ UNCHANGED <<notEnsure, engineVars, build_cache, eargs, edir, estream>>

\* Line 507: the archive is submitted to the engine's build API.  A build
\* that succeeds makes an image, the one it made before of an unchanged
\* context if the engine still has it, and the stream tells its id.
EbSubmit(succeeds, changed) ==
    /\ epc = "build"
    /\ LET name == eargs.name
           id == IF ~changed /\ build_cache[name] \in ImageIds
                 THEN build_cache[name] ELSE nextId
       IN  /\ IF succeeds
              THEN /\ images' = IF id \in ImageIds THEN images
                                ELSE EngineNewImage(id, {}, "build", <<>>)
                   /\ nextId' = IF id \in ImageIds THEN nextId ELSE nextId + 1
                   /\ build_cache' = [build_cache EXCEPT ![name] = id]
                   /\ estream' \in BuiltStreams(id)
              ELSE /\ changed
                   /\ estream' \in FailedStreams
                   /\ UNCHANGED <<images, nextId, build_cache>>
           /\ elog' = [elog EXCEPT !.build_calls = @ + 1, !.stream = estream']
    /\ epc' = "stream"
    /\ UNCHANGED <<notEnsure, containers, networks, eargs, edir>>

\* Lines 507-547: the next item of the stream.  The marker ends the call:
\* its id is resolved, the image is tagged name:<uuid> unless it carries a
\* tag of the repository, and its full id returned.  The end of the stream
\* raises.
EbReadStream ==
    /\ epc = "stream"
    /\ IF estream = <<>>
       THEN /\ elog' = Raised(elog, "unconfirmed", eargs.name)
            /\ epc' = "raised"
            /\ UNCHANGED <<images, estream>>
       ELSE IF is_success_line(Head(estream))
       THEN LET full_image == get_full_image(ShortRef(Head(estream).id)).n
                have_tag == IF full_image \in ImageIds
                            THEN HasRepo(images, full_image, eargs.name)
                            ELSE FALSE
                repotag == RepoTag(eargs.name, Uuid(full_image))
            IN  /\ images' = IF have_tag THEN images
                             ELSE EngineTag(full_image, repotag)
                /\ elog' = [elog EXCEPT
                               !.result = full_image,
                               !.had_tag = have_tag,
                               !.tagged = IF have_tag THEN @
                                          ELSE @ \cup {<<full_image, repotag>>}]
                /\ epc' = "returned"
                /\ UNCHANGED estream
       ELSE /\ estream' = Tail(estream)
            /\ UNCHANGED <<images, elog, epc>>
    /\ UNCHANGED <<notEnsure, nextId, containers, networks, build_cache, eargs,
                   edir>>

\* The caller goes on, with the image or with the exception.
EbDone ==
    /\ epc \in {"returned", "raised"}
    /\ epc' = "idle"
    /\ UNCHANGED <<notEnsure, engineVars, build_cache, eargs, edir, estream, elog>>

EnsureNames == {"ldap"}
EnsureArgs == [name : EnsureNames, use_last : BOOLEAN]

NextEnsure ==
    \/ \E args \in EnsureArgs, dir \in BuilderDirs : EnsureBuilt(args, dir)
    \/ \E imported \in BOOLEAN : EbReadDockerfile(imported)
    \/ EbAssemble
    \/ \E succeeds \in BOOLEAN, changed \in BOOLEAN : EbSubmit(succeeds, changed)
    \/ EbReadStream
    \/ EbDone

\* ensure_built and ensure_images_built of one role, called one after the
\* other by a caller that may ask either to reuse the last image.
ReuseArgs ==
    { [names |-> {"ldap"}, ansibles |-> {}, existing |-> ex,
       use_last |-> ul, max_workers |-> Unlimited] :
        ex \in {EmptyMap, blog.result}, ul \in BOOLEAN }

NextReuse ==
    \/ \E args \in EnsureArgs, dir \in BuilderDirs :
           bpc = "idle" /\ EnsureBuilt(args, dir)
    \/ \E imported \in BOOLEAN : EbReadDockerfile(imported)
    \/ EbAssemble
    \/ \E succeeds \in BOOLEAN, changed \in BOOLEAN : EbSubmit(succeeds, changed)
    \/ EbReadStream
    \/ EbDone
    \/ \E args \in ReuseArgs : epc = "idle" /\ EnsureImagesBuilt(args)
    \/ \E built \in BOOLEAN : VctPrepare(built)
    \/ \E synced \in BOOLEAN : VctStart(synced)
    \/ Submit
    \/ \E i \in DOMAIN tasks : StartTask(i)
    \/ \E i \in DOMAIN tasks, built \in BOOLEAN : RunBuild(i, built)
    \/ \E i \in DOMAIN tasks : Collect(i)
    \/ BuildReturn
    \/ BuildUnwound
    \/ BuildDone

(***************************************************************************)
(* ensure_built: the include directives (lines 482-505)                    *)
(***************************************************************************)

\* Directives in one Dockerfile.
MaxDirectives == 2

\* A path is the sequence of its characters, so that startswith and
\* endswith are what they are on strings.
Path_a_b_y == <<"a", "/", "b", "/", "y">>
Path_a_x == <<"a", "/", "x">>
Path_ab == <<"a", "b">>
Path_t == <<"t">>
Path_a_u == <<"a", "/", "u">>
Path_n == <<"n">>
Dir_a == <<"a", "/">>
Dir_a_b == <<"a", "/", "b", "/">>
Dir_root == <<"/">>

\* sorted(self._get_vct_files().keys()): the tracked files of the source
\* tree.  a/u lies in the tree untracked, and n does not exist.
vct_files == <<Path_a_b_y, Path_a_x, Path_ab, Path_t>>
Directories == {Dir_a, Dir_a_b, Dir_root}
Directives == Directories \cup {Path_a_x, Path_a_b_y, Path_a_u, Path_n}

Range(seq) == {seq[k] : k \in DOMAIN seq}

\* os.path.exists(os.path.join(ROOT, p))
PathExists(p) == p \in Range(vct_files) \cup Directories \cup {Path_a_u}

StartsWith(f, p) == Len(p) <= Len(f) /\ SubSeq(f, 1, Len(p)) = p
EndsWithSlash(p) == p # <<>> /\ p[Len(p)] = "/"

\* os.path.join(ROOT, f) and 'extra/vct/%s' % f
FullPath(f) == <<"ROOT", "/">> \o f
RelPath(f) == <<"extra", "/", "vct", "/">> \o f

\* tar.add(full, rel)
Member(f) == [full |-> FullPath(f), rel |-> RelPath(f)]

\* Lines 492-499: the tracked files a directory directive adds, in order.
DirectoryMembers(p, seen) ==
    LET hits == SelectSeq(vct_files,
                    LAMBDA f : /\ StartsWith(f, p) \/ p = Dir_root
                               /\ FullPath(f) \notin seen)
    IN  [k \in DOMAIN hits |-> Member(hits[k])]

NoIncludeLog == [paths |-> <<>>]

IncludeIdle ==
    /\ xpc = "idle"
    /\ vct_paths = <<>>
    /\ added = {}
    /\ tar = <<>>
    /\ xlog = NoIncludeLog

\* Lines 482-485: a Dockerfile with include directives.
IncludeBegin(paths) ==
    /\ xpc = "idle"
    /\ paths # <<>>
    /\ xpc' = "include"
    /\ vct_paths' = paths
    /\ added' = {}
    /\ tar' = <<>>
    /\ xlog' = [paths |-> paths]
    /\ UNCHANGED notInclude

\* Lines 486-505: one directive.  Nothing is ever put in 'added'.
IncludePath ==
    /\ xpc = "include"
    /\ vct_paths # <<>>
    /\ LET p == Head(vct_paths)
       IN  IF ~PathExists(p)
           THEN /\ xpc' = "raised"
                /\ UNCHANGED <<vct_paths, tar>>
           ELSE /\ vct_paths' = Tail(vct_paths)
                /\ tar' = IF EndsWithSlash(p)
                          THEN tar \o DirectoryMembers(p, added)
                          ELSE IF FullPath(p) \in added THEN tar
                          ELSE Append(tar, Member(p))
                /\ UNCHANGED xpc
    /\ UNCHANGED <<notInclude, added, xlog>>

\* Line 507: tar.close().
IncludeClose ==
    /\ xpc = "include"
    /\ vct_paths = <<>>
    /\ xpc' = "closed"
    /\ UNCHANGED <<notInclude, vct_paths, added, tar, xlog>>

\* The call goes on to the build, or the exception leaves it.
IncludeDone ==
    /\ xpc \in {"closed", "raised"}
    /\ xpc' = "idle"
    /\ vct_paths' = <<>>
    /\ added' = {}
    /\ tar' = <<>>
    /\ xlog' = NoIncludeLog
    /\ UNCHANGED notInclude

RECURSIVE SeqsUpTo(_, _)
SeqsUpTo(S, n) ==
    IF n = 0 THEN {<<>>}
    ELSE LET shorter == SeqsUpTo(S, n - 1)
         IN  shorter \cup {Append(q, x) : q \in shorter, x \in S}

NextInclude ==
    \/ \E paths \in SeqsUpTo(Directives, MaxDirectives) : IncludeBegin(paths)
    \/ IncludePath
    \/ IncludeClose
    \/ IncludeDone


(***************************************************************************)
(* Docker.__init__: the state document as loaded (lines 148-191)           *)
(***************************************************************************)

\* Keys a document found at state_path may lack.
MaxMissingKeys == 2

\* The keys of the dict of lines 151-169 and those of the tuple of lines
\* 175-190.
InitialKeys ==
    {"clobber-hgweb", "clobber-hgmaster", "clobber-hgrb", "clobber-rbweb",
     "images", "containers",
     "last-pulse-id", "last-rbweb-id", "last-rbweb-bootstrap-id", "last-hgrb-id",
     "last-hgmaster-id", "last-hgweb-id", "last-ldap-id", "last-vct-id",
     "last-treestatus-id", "vct-cid"}
DefaultedKeys ==
    {"clobber-hgweb", "clobber-hgmaster", "clobber-hgrb", "clobber-rbweb",
     "last-pulse-id", "last-rbweb-id", "last-rbweb-bootstrap-id",
     "last-hgmaster-id", "last-hgrb-id", "last-hgweb-id", "last-ldap-id",
     "last-vct-id", "last-treestatus-id", "vct-cid"}

\* The keys later operations read: clobber_needed (line 305, the roles it is
\* called with), build_hgmo and prune_images (lines 854-861, 897) and
\* vct_container (line 971).
ClobberKeys ==
    {"clobber-hgweb", "clobber-hgmaster", "clobber-hgrb", "clobber-rbweb",
     "clobber-vct"}
ReadKeys ==
    ClobberKeys \cup
    {"last-hgrb-id", "last-pulse-id", "last-rbweb-id", "last-hgmaster-id",
     "last-hgweb-id", "last-ldap-id", "last-vct-id", "last-treestatus-id",
     "images", "vct-cid"}

\* A value is held by its kind: None, an empty mapping, or something else.
InitialValue(k) == IF k \in {"images", "containers"} THEN "empty" ELSE "null"
InitialDocument == [k \in InitialKeys |-> InitialValue(k)]

\* No file at state_path.
NoDocument == [k \in {"no file"} |-> "null"]

\* The documents json.load may return: every key with some value, but for
\* a few keys that the document lacks.
Documents ==
    { [k \in (InitialKeys \cup {"clobber-vct"}) \ lacking |-> "value"] :
        lacking \in {L \in SUBSET (InitialKeys \cup {"clobber-vct"}) :
                        Cardinality(L) <= MaxMissingKeys} }

\* Lines 190-191: self.state.setdefault(k, None) for each key.
setdefault_all(doc, keys) ==
    [k \in DOMAIN doc \cup keys |-> IF k \in DOMAIN doc THEN doc[k] ELSE "null"]

\* self.state[key] as later operations read it: clobber_needed takes a
\* KeyError for None (lines 304-307), the others let it out.
ReadState(st, key) ==
    IF key \in DOMAIN st THEN st[key]
    ELSE IF key \in ClobberKeys THEN "null"
    ELSE "KeyError"

ConstructIdle ==
    /\ kpc = "unmade"
    /\ kfile = NoDocument
    /\ kstate = NoDocument

\* Lines 148-191.
Construct ==
    /\ kpc = "unmade"
    /\ kpc' = "made"
    /\ kstate' = setdefault_all(IF kfile = NoDocument THEN InitialDocument
                                ELSE kfile, DefaultedKeys)
    /\ UNCHANGED <<notConstruct, kfile>>

\* The process ends; another may find any document.
ConstructAgain(doc) ==
    /\ kpc = "made"
    /\ kpc' = "unmade"
    /\ kfile' = doc
    /\ kstate' = NoDocument
    /\ UNCHANGED notConstruct

NextConstruct ==
    \/ Construct
    \/ \E doc \in Documents \cup {NoDocument} : ConstructAgain(doc)

(***************************************************************************)
(* clobber_needed (lines 287-321), the clock and the marker files          *)
(***************************************************************************)

\* Calls of clobber_needed in one run.
MaxClobberCalls == 3

\* The roles clobber_needed is asked about here.
AskedRoles == {"vct", "hgmaster"}

NoClobberCall ==
    [name |-> "", result |-> FALSE, pending |-> FALSE, existed |-> FALSE,
     before |-> InitialState]

\* calls: calls made; pending: the roles whose marker was touched (or made)
\* and that no call has asked about since; last: the last call.
NoClobberLog ==
    [calls |-> 0, pending |-> {}, last |-> NoClobberCall]

ClobberIdle == clog = NoClobberLog

\* Lines 287-321 as one call: the answer, and the time of the observation
\* recorded in the state when the answer is True.  Nothing is saved.
ClobberNeeded(name) ==
    /\ clog.calls < MaxClobberCalls
    /\ state' = clobber_record(state, name)
    /\ clog' = [calls   |-> clog.calls + 1,
                pending |-> clog.pending \ {name},
                last    |-> [name    |-> name,
                             result  |-> clobber_test(state, name),
                             pending |-> name \in clog.pending,
                             existed |-> mtime[name] # NoTime,
                             before  |-> state]]
    /\ UNCHANGED <<notClobber, engineVars, state_file, clockVars>>

\* Somebody touches testing/clobber.<name>, or makes it.
TouchMarker(name) ==
    /\ mtime[name] < now
    /\ mtime' = [mtime EXCEPT ![name] = now]
    /\ clog' = [clog EXCEPT !.pending = @ \cup {name}]
    /\ UNCHANGED <<notClobber, engineVars, stateVars, now>>

\* Time passes.
ClockTick ==
    /\ now < MaxTime
    /\ now' = now + 1
    /\ UNCHANGED <<notClobber, engineVars, stateVars, mtime, clog>>

NextClobber ==
    \/ \E name \in AskedRoles : ClobberNeeded(name)
    \/ \E name \in AskedRoles : TouchMarker(name)
    \/ ClockTick

(***************************************************************************)
(* auto_clean_orphans (lines 1046-1072) and is_alive (lines 245-255)       *)
(***************************************************************************)

\* Objects the scope's body makes or removes in one run.
MaxScopeSteps == 3

Kinds == {"container", "image", "network"}

NoListing == [k \in Kinds |-> <<>>]

NoSnapshot == [k \in Kinds |-> {}]

NoOrphanLog ==
    [alive |-> FALSE, exit |-> NoListing, calls |-> <<>>, exc |-> "",
     steps |-> 0]

OrphanIdle ==
    /\ opc = "idle"
    /\ oeng = [list |-> NoListing, nextId |-> 1]
    /\ osnap = NoSnapshot
    /\ olog = NoOrphanLog

\* Lines 245-255: no client, or a request for /version that fails, is "not
\* alive".
is_alive(client, answers) ==
    IF ~client THEN FALSE ELSE answers

\* The ids of a listing not in a set, in the listing's order.
NotIn(listing, ids) ==
    SelectSeq(listing, LAMBDA id : id \notin ids)

\* The calls one loop of the finally clause submits.
Submitted(call, ids) ==
    [n \in 1..Len(ids) |-> [call |-> call, id |-> ids[n]]]

\* Line 1067: the id the image loop hands to remove_image for each new
\* image is c['Id'], c being the variable of the container loop of line
\* 1059, that is, the last container listed at exit.
ImageLoopId(listing, i) ==
    listing["container"][Len(listing["container"])]

\* remove_image(id) in the engine: an id no image carries removes nothing.
RemoveFrom(listing, ids) ==
    SelectSeq(listing, LAMBDA id : id \notin ids)

\* Lines 1048-1054: the liveness test and, alive, the three snapshots.
OrphansEnter(client, answers) ==
    /\ opc = "idle"
    /\ opc' = "scope"
    /\ osnap' = IF is_alive(client, answers)
                THEN [k \in Kinds |-> Range(oeng.list[k])]
                ELSE NoSnapshot
    /\ olog' = [olog EXCEPT !.alive = is_alive(client, answers)]
    /\ UNCHANGED <<notOrphan, oeng>>

\* The body of the scope makes an object.
ScopeMakes(k) ==
    /\ opc = "scope"
    /\ olog.steps < MaxScopeSteps
    /\ oeng' = [list   |-> [oeng.list EXCEPT ![k] = <<oeng.nextId>> \o @],
                nextId |-> oeng.nextId + 1]
    /\ olog' = [olog EXCEPT !.steps = @ + 1]
    /\ UNCHANGED <<notOrphan, opc, osnap>>

\* The body of the scope removes an object.
ScopeRemoves(k, id) ==
    /\ opc = "scope"
    /\ olog.steps < MaxScopeSteps
    /\ id \in Range(oeng.list[k])
    /\ oeng' = [oeng EXCEPT !.list[k] = RemoveFrom(@, {id})]
    /\ olog' = [olog EXCEPT !.steps = @ + 1]
    /\ UNCHANGED <<notOrphan, opc, osnap>>

\* Lines 1049-1050 and 1055-1072: the scope ends, by returning or by
\* raising.  Not alive, nothing more is done.  Alive, the finally clause
\* runs its three loops, each pool being waited for at the end of its
\* with-block; with a new image and no container listed, c is unbound at
\* line 1067 and the NameError ends the clause before the network loop.
OrphansExit(raised) ==
    /\ opc = "scope"
    /\ LET listing == oeng.list
           newC == NotIn(listing["container"], osnap["container"])
           newI == NotIn(listing["image"], osnap["image"])
           newN == NotIn(listing["network"], osnap["network"])
           unbound == newI # <<>> /\ listing["container"] = <<>>
           imgIds == IF unbound THEN <<>>
                     ELSE [n \in 1..Len(newI) |-> ImageLoopId(listing, newI[n])]
           cCalls == Submitted("remove_container", newC)
           iCalls == Submitted("remove_image", imgIds)
           nCalls == IF unbound THEN <<>> ELSE Submitted("remove_network", newN)
       IN  IF ~olog.alive
           THEN /\ opc' = IF raised THEN "raised" ELSE "returned"
                /\ olog' = [olog EXCEPT !.exit = listing,
                                        !.exc = IF raised THEN "scope" ELSE ""]
                /\ oeng' = oeng
           ELSE /\ opc' = IF raised \/ unbound THEN "raised" ELSE "returned"
                /\ olog' = [olog EXCEPT
                              !.exit = listing,
                              !.calls = cCalls \o iCalls \o nCalls,
                              !.exc = IF unbound THEN "NameError"
                                      ELSE IF raised THEN "scope" ELSE ""]
                /\ oeng' = [oeng EXCEPT
                              !.list = [container |-> RemoveFrom(listing["container"], Range(newC)),
                                        image     |-> RemoveFrom(listing["image"], Range(imgIds)),
                                        network   |-> IF unbound THEN listing["network"]
                                                      ELSE RemoveFrom(listing["network"], Range(newN))]]
    /\ UNCHANGED <<notOrphan, osnap>>

NextOrphans ==
    \/ \E client \in BOOLEAN, answers \in BOOLEAN : OrphansEnter(client, answers)
    \/ \E k \in Kinds : ScopeMakes(k)
    \/ \E k \in Kinds : \E id \in Range(oeng.list[k]) : ScopeRemoves(k, id)
    \/ \E raised \in BOOLEAN : OrphansExit(raised)

(***************************************************************************)
(* Specifications                                                          *)
(***************************************************************************)

vars == <<engineVars, importVars, rollbackVars, stateVars, pruneVars,
          clockVars, buildVars, ansibleVars, saveVars, coverageVars, ensureVars, includeVars, constructVars, clobberVars, orphanVars>>

EngineEmpty ==
    /\ images = <<>>
    /\ nextId = 1
    /\ containers = <<>>
    /\ networks = {}

StateFresh ==
    /\ state = InitialState
    /\ state_file = InitialState

InitImport ==
    /\ images \in ImportEngines
    /\ nextId = 2
    /\ containers = <<>>
    /\ networks = {}
    /\ StateFresh
    /\ ImportIdle
    /\ RollbackIdle
    /\ PruneIdle
    /\ ClockIdle
    /\ BuildIdle
    /\ AnsibleIdle
    /\ SaveIdle
    /\ CoverageIdle
    /\ EnsureIdle
    /\ IncludeIdle
    /\ ConstructIdle
    /\ ClobberIdle
    /\ OrphanIdle

SpecImport ==
    InitImport /\ [][NextImport]_vars

\* A scope is entered with containers and networks of earlier work about.
InitRollback ==
    /\ images = <<>>
    /\ nextId = 3
    /\ containers \in
           { <<>>, [c \in {1} |-> [ImageID |-> NoImage, Image |-> IdRef(NoImage),
                                   Running |-> TRUE]] }
    /\ networks \in { {}, {2} }
    /\ StateFresh
    /\ ImportIdle
    /\ RollbackIdle
    /\ PruneIdle
    /\ ClockIdle
    /\ BuildIdle
    /\ AnsibleIdle
    /\ SaveIdle
    /\ CoverageIdle
    /\ EnsureIdle
    /\ IncludeIdle
    /\ ConstructIdle
    /\ ClobberIdle
    /\ OrphanIdle

SpecRollback ==
    InitRollback /\ [][NextRollback]_vars

InitPrune ==
    /\ images \in PruneEngines
    /\ containers \in PruneContainers
    /\ nextId = MaxPruneImages + 2
    /\ networks = {}
    /\ state \in PruneStates
    /\ state_file = state
    /\ ImportIdle
    /\ RollbackIdle
    /\ PruneIdle
    /\ ClockIdle
    /\ BuildIdle
    /\ AnsibleIdle
    /\ SaveIdle
    /\ CoverageIdle
    /\ EnsureIdle
    /\ IncludeIdle
    /\ ConstructIdle
    /\ ClobberIdle
    /\ OrphanIdle

SpecPrune ==
    InitPrune /\ [][NextPrune]_vars

BuildEngines ==
    { <<>>,
      [i \in {1} |-> [RepoTags |-> {RepoTag("hgmaster", Uuid(1))}, Created |-> 1,
                      History |-> <<Layer(1, "/sync-and-build")>>]] }

InitBuild ==
    /\ images \in BuildEngines
    /\ nextId = 2
    /\ containers = <<>>
    /\ networks = {}
    /\ StateFresh
    /\ ImportIdle
    /\ RollbackIdle
    /\ PruneIdle
    /\ now = 0
    /\ mtime \in {[r \in ClobberRoles |-> IF r = "hgmaster" THEN h
                                          ELSE IF r = "vct" THEN 0 ELSE NoTime] :
                      h \in {NoTime, 0}}
    /\ BuildIdle
    /\ AnsibleIdle
    /\ SaveIdle
    /\ CoverageIdle
    /\ EnsureIdle
    /\ IncludeIdle
    /\ ConstructIdle
    /\ ClobberIdle
    /\ OrphanIdle

SpecBuild ==
    InitBuild /\ [][NextBuild]_vars

\* The engine run_ansible may find: an image of the role, the vct image and
\* a vct container, running or not; the state may record that container, one
\* that is gone, or none, and an earlier observation of the clobber file of
\* vct, which may be missing, as old as that observation or newer.
AnsibleImages ==
    [i \in {1, 2} |->
        [RepoTags |-> {RepoTag(IF i = 1 THEN "hgmaster" ELSE "vct", Uuid(i))},
         Created  |-> i,
         History  |-> <<Layer(i, IF i = 1 THEN "/sync-and-build" ELSE "build")>>]]

InitAnsible ==
    /\ images = AnsibleImages
    /\ containers \in {[c \in {3} |-> [ImageID |-> 2, Image |-> IdRef(2),
                                       Running |-> r]] : r \in BOOLEAN}
    /\ nextId = 5
    /\ networks = {}
    /\ state \in {[InitialState EXCEPT !.vct_cid = c, !.clobber["vct"] = seen] :
                      c \in {NoImage, 3, 4}, seen \in {NoTime, 0}}
    /\ state_file = state
    /\ ImportIdle
    /\ RollbackIdle
    /\ PruneIdle
    /\ now = 0
    /\ mtime \in {[r \in ClobberRoles |-> IF r = "vct" THEN v ELSE NoTime] :
                      v \in {NoTime, 0, 1}}
    /\ BuildIdle
    /\ AnsibleIdle
    /\ SaveIdle
    /\ CoverageIdle
    /\ EnsureIdle
    /\ IncludeIdle
    /\ ConstructIdle
    /\ ClobberIdle
    /\ OrphanIdle

SpecAnsible ==
    InitAnsible /\ [][NextAnsible]_vars

\* One call of ensure_images_built, from its entry to its end.
NextPool ==
    \/ \E args \in BuildArgs : bcalls = 0 /\ EnsureImagesBuilt(args)
    \/ \E built \in BOOLEAN : VctPrepare(built)
    \/ \E synced \in BOOLEAN : VctStart(synced)
    \/ Submit
    \/ \E i \in DOMAIN tasks : StartTask(i)
    \/ \E i \in DOMAIN tasks, built \in BOOLEAN : RunBuild(i, built)
    \/ \E i \in DOMAIN tasks : AnsibleBegin(i)
    \/ \E i \in DOMAIN tasks, succeeded \in BOOLEAN : AnsibleEnd(i, succeeded)
    \/ \E i \in DOMAIN tasks : Collect(i)
    \/ BuildReturn
    \/ BuildUnwound
    \/ BuildDone

\* Every engine call returns, a free worker of the pool takes the next
\* future, and the main thread goes on when it can.
SpecPool ==
    /\ InitBuild
    /\ [][NextPool]_vars
    /\ WF_vars(\E built \in BOOLEAN : VctPrepare(built))
    /\ WF_vars(\E synced \in BOOLEAN : VctStart(synced))
    /\ WF_vars(Submit)
    /\ WF_vars(\E i \in DOMAIN tasks : StartTask(i))
    /\ WF_vars(\E i \in DOMAIN tasks, built \in BOOLEAN : RunBuild(i, built))
    /\ WF_vars(\E i \in DOMAIN tasks : AnsibleBegin(i))
    /\ WF_vars(\E i \in DOMAIN tasks, succeeded \in BOOLEAN : AnsibleEnd(i, succeeded))
    /\ WF_vars(\E i \in DOMAIN tasks : Collect(i))
    /\ WF_vars(BuildReturn)
    /\ WF_vars(BuildUnwound)

\* Every attach stream ends, and the playbook ends.
SpecAnsibleFair ==
    /\ SpecAnsible
    /\ WF_vars(AttachStreamEnds)
    /\ WF_vars(\E code \in ExitCodes : PlaybookEnds(code))

\* Layers below the images the engine still knows: docker history reports
\* them without an id.
MissingLayers(n) == [i \in 1..n |-> Layer(NoImage, "build")]

Commands == {"/sync-and-build", "build"}

\* The history of the role's image, of len layers: the image, two ancestors
\* the engine still holds as images 5 and 6, and layers without an id.
LongHistory(len, c1, c5, c6) ==
    <<Layer(1, c1), Layer(5, c5), Layer(6, c6)>> \o MissingLayers(len - 3)

\* An engine whose image of the role has a history at or past the limit.
LongImages(len, c1, c5, c6) ==
    [i \in {1, 2, 5, 6} |->
        CASE i = 1 -> [RepoTags |-> {RepoTag("hgmaster", Uuid(1))},
                       Created  |-> 3,
                       History  |-> LongHistory(len, c1, c5, c6)]
          [] i = 2 -> AnsibleImages[2]
          [] i = 5 -> [RepoTags |-> {},
                       Created  |-> 1,
                       History  |-> Tail(LongHistory(len, c1, c5, c6))]
          [] i = 6 -> [RepoTags |-> {},
                       Created  |-> 0,
                       History  |-> Tail(Tail(LongHistory(len, c1, c5, c6)))]]

InitAnsibleLong ==
    /\ images \in {LongImages(len, c1, c5, c6) :
                      len \in {HistoryLimit, HistoryLimit + 1},
                      c1 \in Commands, c5 \in Commands, c6 \in Commands}
    /\ containers = [c \in {3} |-> [ImageID |-> 2, Image |-> IdRef(2),
                                     Running |-> TRUE]]
    /\ nextId = 7
    /\ networks = {}
    /\ state = [InitialState EXCEPT !.vct_cid = 3]
    /\ state_file = state
    /\ ImportIdle
    /\ RollbackIdle
    /\ PruneIdle
    /\ now = 0
    /\ mtime = [r \in ClobberRoles |-> NoTime]
    /\ BuildIdle
    /\ AnsibleIdle
    /\ SaveIdle
    /\ CoverageIdle
    /\ EnsureIdle
    /\ IncludeIdle
    /\ ConstructIdle
    /\ ClobberIdle
    /\ OrphanIdle

SpecAnsibleLong ==
    InitAnsibleLong /\ [][NextAnsible]_vars

InitSave ==
    /\ EngineEmpty
    /\ StateFresh
    /\ ImportIdle
    /\ RollbackIdle
    /\ PruneIdle
    /\ ClockIdle
    /\ BuildIdle
    /\ AnsibleIdle
    /\ SaveIdle
    /\ CoverageIdle
    /\ EnsureIdle
    /\ IncludeIdle
    /\ ConstructIdle
    /\ ClobberIdle
    /\ OrphanIdle

SpecSave ==
    InitSave /\ [][NextSave]_vars

InitCoverage ==
    /\ EngineEmpty
    /\ StateFresh
    /\ ImportIdle
    /\ RollbackIdle
    /\ PruneIdle
    /\ ClockIdle
    /\ BuildIdle
    /\ AnsibleIdle
    /\ SaveIdle
    /\ CoverageIdle
    /\ EnsureIdle
    /\ IncludeIdle
    /\ ConstructIdle
    /\ ClobberIdle
    /\ OrphanIdle

SpecCoverage ==
    InitCoverage /\ [][NextCoverage]_vars

\* ensure_built starts with an engine that has no image.
InitEnsure ==
    /\ EngineEmpty
    /\ StateFresh
    /\ ImportIdle
    /\ RollbackIdle
    /\ PruneIdle
    /\ ClockIdle
    /\ BuildIdle
    /\ AnsibleIdle
    /\ SaveIdle
    /\ CoverageIdle
    /\ EnsureIdle
    /\ IncludeIdle
    /\ ConstructIdle
    /\ ClobberIdle
    /\ OrphanIdle

SpecEnsure ==
    InitEnsure /\ [][NextEnsure]_vars

\* The include directives of a Dockerfile, handled over and over.
InitInclude ==
    /\ EngineEmpty
    /\ StateFresh
    /\ ImportIdle
    /\ RollbackIdle
    /\ PruneIdle
    /\ ClockIdle
    /\ BuildIdle
    /\ AnsibleIdle
    /\ SaveIdle
    /\ CoverageIdle
    /\ EnsureIdle
    /\ IncludeIdle
    /\ ConstructIdle
    /\ ClobberIdle
    /\ OrphanIdle

SpecInclude ==
    InitInclude /\ [][NextInclude]_vars

\* Docker constructed over no state file and over the documents it may find.
InitConstruct ==
    /\ EngineEmpty
    /\ StateFresh
    /\ ImportIdle
    /\ RollbackIdle
    /\ PruneIdle
    /\ ClockIdle
    /\ BuildIdle
    /\ AnsibleIdle
    /\ SaveIdle
    /\ CoverageIdle
    /\ EnsureIdle
    /\ IncludeIdle
    /\ ConstructIdle
    /\ ClobberIdle
    /\ OrphanIdle

SpecConstruct ==
    InitConstruct /\ [][NextConstruct]_vars

\* One auto_clean_orphans scope over an engine that holds up to one
\* container, one image and one network when it is entered.
InitOrphans ==
    /\ EngineEmpty
    /\ StateFresh
    /\ ImportIdle
    /\ RollbackIdle
    /\ PruneIdle
    /\ ClockIdle
    /\ BuildIdle
    /\ AnsibleIdle
    /\ SaveIdle
    /\ CoverageIdle
    /\ EnsureIdle
    /\ IncludeIdle
    /\ ConstructIdle
    /\ ClobberIdle
    /\ opc = "idle"
    /\ osnap = NoSnapshot
    /\ olog = NoOrphanLog
    /\ \E c \in BOOLEAN, i \in BOOLEAN, n \in BOOLEAN :
          oeng = [list   |-> [container |-> IF c THEN <<1>> ELSE <<>>,
                              image     |-> IF i THEN <<2>> ELSE <<>>,
                              network   |-> IF n THEN <<3>> ELSE <<>>],
                  nextId |-> 4]

SpecOrphans ==
    InitOrphans /\ [][NextOrphans]_vars

\* clobber_needed asked about markers that are made and touched as time
\* passes.
InitClobber ==
    /\ EngineEmpty
    /\ StateFresh
    /\ ImportIdle
    /\ RollbackIdle
    /\ PruneIdle
    /\ ClockIdle
    /\ BuildIdle
    /\ AnsibleIdle
    /\ SaveIdle
    /\ CoverageIdle
    /\ EnsureIdle
    /\ IncludeIdle
    /\ ConstructIdle
    /\ ClobberIdle
    /\ OrphanIdle

SpecClobber ==
    InitClobber /\ [][NextClobber]_vars

\* Calls of ensure_built and of ensure_images_built in turn, from an engine
\* that has no image.
SpecReuse ==
    InitEnsure /\ [][NextReuse]_vars

(***************************************************************************)
(* Properties                                                              *)
(***************************************************************************)

\* C1: in import_base_image, on a cache miss the downloaded bytes reach the
\* engine's import only after their SHA-256 was found equal to the expected
\* digest; if the digest differs the call raises, no import call is made and
\* no image is created or tagged.
C1_VerifyBeforeImport ==
    /\ ipc \in {"decompress", "import"} => Sha256(ilog.content) = iargs.digest
    /\ \A e \in ilog.imports :
          /\ Sha256(ilog.content) = iargs.digest
          /\ e.data.body = ilog.content.body
    /\ (ilog.downloaded /\ Sha256(ilog.content) # iargs.digest) =>
          /\ ipc \in {"verify", "raised", "idle"}
          /\ ipc = "idle" => ilog.outcome = "raised"
          /\ ilog.imports = {}
          /\ images = ilog.before
          /\ ires = NoImage

\* A call that downloaded content of another digest has raised, the image
\* store being what the call found.
C1_Witness ==
    /\ ipc = "raised"
    /\ ilog.downloaded
    /\ Sha256(ilog.content) # iargs.digest
    /\ images = ilog.before

\* C2: after one successful import_base_image, every later call with the same
\* (repository, tagprefix, url, digest) finds the image tagged
\* repository:<tagprefix>-<hash of (url, digest)>, downloads nothing, imports
\* nothing and returns the id the first call returned.
C2_RepeatedImportHitsCache ==
    ilog.prior # {} =>
        /\ ipc \in {"done", "idle"}
        /\ ipc = "idle" => ilog.outcome = "returned"
        /\ ~ilog.downloaded
        /\ ilog.imports = {}
        /\ images = ilog.before
        /\ ilog.prior = {ires}
        /\ ires \in ImageIds
        /\ RepoTag(iargs.repository,
                   CacheTag(iargs.tagprefix, iargs.url, iargs.digest))
               \in images[ires].RepoTags

\* A second call with the arguments of a call that downloaded and imported.
C2_Witness ==
    /\ ipc = "done"
    /\ ilog.prior = {ires}
    /\ \E f \in ilog.first : f.args = iargs /\ f.how = "import"

\* C6: resources created inside a docker_rollback_on_error scope are removed
\* at scope exit if and only if an exception escapes: then every container and
\* network created in the scope is removed and the original exception is
\* raised again; on a normal exit nothing is removed; what the scope did not
\* create is never removed by the guard.
C6_RollbackIffException ==
    /\ rpc = "raised" =>
          /\ created_containers \cap ContainerIds = {}
          /\ created_networks \cap networks = {}
          /\ rexc = "original"
    /\ rpc = "exited" => rlog.attempted = {}
    /\ rlog.attempted \cap (rlog.before_containers \cup rlog.before_networks) = {}

\* C7: if a removal fails during the rollback, removal is still attempted for
\* every other tracked container and network, and the caller gets the original
\* exception of the scope.
C7_RollbackIsBestEffort ==
    (rpc = "raised" /\ rlog.failed # {}) =>
        /\ rlog.attempted = created_containers \cup created_networks
        /\ rexc = "original"

\* Whether a running container was made from the image.
BacksRunningContainer(i) ==
    \E c \in ContainerIds : containers[c].Running /\ containers[c].ImageID = i

\* Whether a last-<role>-id field of the state holds the image.
RecordedLastUsed(i) == \E r \in LastRoles : state.last[r] = i

Occurrences(seq, x) == Cardinality({k \in 1..Len(seq) : seq[k] = x})

\* C10: prune_images submits exactly one removal for each image that is
\* neither running nor last used and carries a tag of one of the relevant
\* roles, none for an image without such a tag; a removal that fails neither
\* prevents the others nor makes prune_images fail.
C10_PruneSubmitsEachOnce ==
    ppc # "idle" =>
        /\ \A i \in DOMAIN plog.before :
              LET relevant ==
                      \E repotag \in plog.before[i].RepoTags :
                          repotag[1] \in {"pulse", "rbweb", "hgmaster", "hgrb",
                                          "hgweb", "ldap", "vct", "treestatus"}
              IN  /\ (relevant /\ ~BacksRunningContainer(i) /\ ~RecordedLastUsed(i))
                        => Occurrences(plog.submitted, i) = 1
                  /\ ~relevant => Occurrences(plog.submitted, i) = 0
        /\ plog.ran \cup pending = {plog.submitted[k] : k \in 1..Len(plog.submitted)}
        /\ ppc = "done" => pending = {}

\* prune_images has returned although one of its removals failed, another one
\* having removed its image.
C10_Witness ==
    /\ ppc = "done"
    /\ plog.failed # {}
    /\ plog.ran \ plog.failed # {}
    /\ DOMAIN plog.before \ ImageIds # {}

\* The current call of ensure_images_built follows a call that returned, asks
\* for the same roles, and no clobber marker was touched in between.
RepeatedBuildCall ==
    /\ bcalls >= 2
    /\ bpc # "idle"
    /\ blog.prev_returned
    /\ blog.roles = blog.prev_roles
    /\ blog.touched = {}

\* The current call has made no build call and no run_ansible call.
NothingBuilt ==
    /\ \A n \in BuildNames : blog.builds[n] = 0
    /\ blog.provisions = {}

\* C3, as stated: ensure_images_built called for a set of roles and then
\* again for the same set, no clobber marker touched in between, makes no
\* build call and no run_ansible call during the second call.
C3_RepeatedCallBuildsNothing ==
    RepeatedBuildCall => NothingBuilt

\* C3, amended: the second call makes no build call and no run_ansible call
\* when it is given use_last or, as 'existing', the mapping the first call
\* returned; it then returns from line 591 before the vct container and the
\* pool are set up.
C3_RepeatedCallWithKnownImagesBuildsNothing ==
    (RepeatedBuildCall /\ (bargs.use_last \/ bargs.existing = blog.prev_result)) =>
        /\ NothingBuilt
        /\ bpc = "returned"
        /\ tasks = <<>>
        /\ vct = NoVct

\* A second call for hgmaster and hgweb, given the mapping of the first, has
\* returned that mapping again.
C3_Witness ==
    /\ RepeatedBuildCall
    /\ bpc = "returned"
    /\ blog.roles = AnsibleRoles
    /\ ~bargs.use_last
    /\ bargs.existing = blog.prev_result
    /\ blog.result = blog.prev_result
    /\ DOMAIN blog.result = AnsibleRoles

BuilderTasks == {i \in DOMAIN tasks : tasks[i].kind = "builder"}
RolesOfBuilder(b) ==
    {i \in DOMAIN tasks : tasks[i].kind = "ansible" /\ tasks[i].builder = b}

\* C4: within one call of ensure_images_built the image of a builder that
\* several missing provisioned roles name is built exactly once, whatever the
\* size of the pool: one future is submitted for it, every role naming the
\* builder holds that future, and the engine is asked for one build of it.
C4_SharedBuilderBuiltOnce ==
    /\ blog.builds["ansible-centos7"] <= 1
    /\ \A b \in Builders :
          /\ Cardinality({i \in BuilderTasks : tasks[i].name = BuilderName(b)}) <= 1
          /\ \A i \in RolesOfBuilder(b) :
                /\ tasks[i].bf \in BuilderTasks
                /\ tasks[tasks[i].bf].name = BuilderName(b)
                /\ tasks[i].bf < i
          /\ (AllFinished /\ RolesOfBuilder(b) # {}) =>
                blog.builds[BuilderName(b)] = 1
    /\ (bpc # "idle" /\ BuilderTasks = {}) => blog.builds["ansible-centos7"] = 0

\* hgmaster and hgweb were both provisioned from the one build of centos7 by
\* a pool of a single worker.
C4_Witness ==
    /\ bpc = "returned"
    /\ workers = 1
    /\ Cardinality(RolesOfBuilder("centos7")) = 2
    /\ \A i \in RolesOfBuilder("centos7") : tasks[i].status = "done"
    /\ blog.builds["ansible-centos7"] = 1

\* C5: a provisioned role built from its builder is provisioned only after
\* the build of the builder is over, from the image that build produced, and
\* the mapping returned holds the role with the id of the committed image.
C5_ProvisionedFromBuiltBuilder ==
    /\ \A call \in blog.provisions : call.awaited
    /\ \A i \in DOMAIN tasks :
          (tasks[i].kind = "ansible" /\ tasks[i].bf # NoTask) =>
              /\ tasks[i].status \in {"provisioning", "done"} =>
                    /\ tasks[tasks[i].bf].status = "done"
                    /\ tasks[i].from = tasks[tasks[i].bf].result
                    /\ [repository |-> tasks[i].name,
                        start_image |-> tasks[i].from,
                        awaited |-> TRUE] \in blog.provisions
              /\ bpc = "returned" =>
                    /\ tasks[i].name \in DOMAIN bimages
                    /\ bimages[tasks[i].name] = tasks[i].result
                    /\ blog.result = bimages
                    /\ tasks[i].result \in ImageIds
                    /\ HasRepo(images, tasks[i].result, tasks[i].name)
                    /\ Head(images[tasks[i].result].History).CreatedBy = "/sync-and-build"
                    /\ Tail(images[tasks[i].result].History) =
                           images[tasks[i].from].History

\* The first call, on an engine without images, has returned hgmaster
\* provisioned from the centos7 image it built.
C5_Witness ==
    /\ bcalls = 1
    /\ bpc = "returned"
    /\ 1 \notin ImageIds
    /\ state.clobber["hgmaster"] = NoTime
    /\ \E i \in DOMAIN tasks :
          /\ tasks[i].kind = "ansible"
          /\ tasks[i].name = "hgmaster"
          /\ tasks[i].bf # NoTask
          /\ tasks[i].from = build_cache["ansible-centos7"]
          /\ "hgmaster" \in DOMAIN blog.result
          /\ blog.result["hgmaster"] = tasks[i].result

\* A run_ansible call of the current call provisioned the role from the
\* image of its builder.
ProvisionedFromBuilder(n) ==
    \E call \in blog.provisions :
        /\ call.repository = n
        /\ call.start_image = build_cache[BuilderName(Ansibles[n].builder)]

\* C8, as stated: when the modification time of a provisioned role's clobber
\* marker has strictly increased between two calls of ensure_images_built, the
\* second call ignores the role's start image and rebuilds the role from its
\* builder.
C8_IncreasedMarkerForcesRebuild ==
    \A n \in AnsibleRoles :
        (/\ bcalls >= 2
         /\ blog.prev_returned
         /\ bpc = "returned"
         /\ n \in blog.roles
         /\ n \in blog.increased
         /\ HasRepo(images, 1, n)) => ProvisionedFromBuilder(n)

\* C8, amended: when the call hands a missing provisioned role that has a
\* start image to the pool while the role's clobber marker exists with a
\* modification time greater than the clobber time recorded in the state, or
\* with none recorded, the start image is ignored and the role is
\* provisioned from the image of its builder.
C8_NewerMarkerForcesBuilder ==
    \A i \in DOMAIN tasks :
        LET n == tasks[i].name IN
        (/\ tasks[i].kind = "ansible"
         /\ n \in DOMAIN start_images
         /\ start_images[n] # NoImage
         /\ mtime[n] # NoTime
         /\ (blog.clobber_seen[n] = NoTime \/ mtime[n] > blog.clobber_seen[n])) =>
            /\ tasks[i].start_image = NoImage
            /\ tasks[i].bf \in BuilderTasks
            /\ tasks[i].status \in {"provisioning", "done"} =>
                  /\ tasks[i].from = tasks[tasks[i].bf].result
                  /\ tasks[i].from # start_images[n]
            /\ state.clobber[n] # NoTime

\* The marker of hgmaster was touched after a call that recorded its time;
\* the second call found a start image and has provisioned hgmaster from the
\* builder's image all the same.
C8_Witness ==
    /\ bcalls = 2
    /\ bpc = "returned"
    /\ "hgmaster" \in blog.increased
    /\ blog.clobber_seen["hgmaster"] # NoTime
    /\ \E i \in DOMAIN tasks :
          /\ tasks[i].kind = "ansible"
          /\ tasks[i].name = "hgmaster"
          /\ start_images["hgmaster"] # NoImage
          /\ tasks[i].status = "done"
          /\ tasks[i].from = tasks[tasks[i].bf].result

\* The images this prune removed from the engine.
DeletedByPrune == DOMAIN plog.before \ ImageIds

\* C11, as stated: after prune_images the image cache of the state holds
\* exactly the prior entries whose image this prune did not delete, so that no
\* entry of an image that still exists is dropped, and the state is persisted.
C11_CacheKeepsUndeletedEntries ==
    ppc = "done" =>
        /\ state.images =
               [k \in {x \in DOMAIN plog.cache : plog.cache[x] \notin DeletedByPrune}
                   |-> plog.cache[k]]
        /\ state_file = state

\* C11, amended: after prune_images the image cache holds exactly the prior
\* entries whose image was not selected for removal; an entry is dropped with
\* the selection, also when the removal then fails and the image stays.  No
\* entry left points at an image this prune deleted, and the rewritten state
\* is persisted.
C11_CacheKeepsUnselectedEntries ==
    ppc = "done" =>
        /\ state.images =
               [k \in {x \in DOMAIN plog.cache : plog.cache[x] \notin to_delete}
                   |-> plog.cache[k]]
        /\ \A k \in DOMAIN state.images : state.images[k] \notin DeletedByPrune
        /\ state_file = state

\* prune_images has returned having deleted the image of one entry, which is
\* gone from the cache, and having failed to delete the image of another,
\* which is gone from the cache as well; a third entry is kept.
C11_Witness ==
    /\ ppc = "done"
    /\ \E k \in DOMAIN plog.cache :
          plog.cache[k] \in DeletedByPrune /\ k \notin DOMAIN state.images
    /\ \E k \in DOMAIN plog.cache :
          /\ plog.cache[k] \in plog.failed
          /\ plog.cache[k] \in ImageIds
          /\ k \notin DOMAIN state.images

\* C12: on successful return the mapping of ensure_images_built has an entry
\* for every requested role, each holding an image of the engine; an entry of
\* 'existing' is kept if and only if its image is among the engine's images,
\* and a requested role whose entry is stale is treated as missing, so that
\* the stale id is not returned.  (Images are only added while the builds run,
\* under fresh ids, so an id is known to the engine at the return exactly if
\* it was at the call or was made by the call.)
C12_ReturnedMappingIsComplete ==
    bpc = "returned" =>
        /\ blog.roles \subseteq DOMAIN blog.result
        /\ \A k \in DOMAIN blog.result : blog.result[k] \in ImageIds
        /\ \A k \in DOMAIN bargs.existing :
              IF bargs.existing[k] \in ImageIds
              THEN /\ k \in DOMAIN blog.result
                   /\ blog.result[k] = bargs.existing[k]
                   /\ k \notin missing
              ELSE k \in blog.roles =>
                      /\ k \in missing \/ bargs.use_last
                      /\ blog.result[k] # bargs.existing[k]

\* A call given a mapping whose hgmaster image is gone from the engine has
\* provisioned hgmaster anew and returned the new image.
C12_Witness ==
    /\ bpc = "returned"
    /\ bargs.existing = RememberedImages
    /\ 1 \notin ImageIds
    /\ "hgmaster" \in missing
    /\ \E i \in DOMAIN tasks : tasks[i].name = "hgmaster" /\ tasks[i].status = "done"
    /\ blog.result["hgmaster"] \in ImageIds

\* Whether the call being made finds the role satisfied: by an entry of
\* 'existing' whose image the engine has, or under use_last by some image
\* tagged in the role's repository.
SatisfiedAtCall(r) ==
    \/ r \in DOMAIN bargs'.existing /\ bargs'.existing[r] \in ImageIds
    \/ bargs'.use_last /\ \E i \in ImageIds : HasRepo(images, i, r)

\* C13: a call of ensure_images_built that finds every requested role
\* satisfied returns at once: the engine and the state are as they were (no
\* vct container is made or started, nothing is built or provisioned) and the
\* pool has no task.
C13_FastPathTouchesNothing ==
    [][ (/\ bpc = "idle"
         /\ bpc' # "idle"
         /\ \A r \in bargs'.names \cup bargs'.ansibles : SatisfiedAtCall(r)) =>
            /\ bpc' = "returned"
            /\ blog'.returned
            /\ (bargs'.names \cup bargs'.ansibles) \subseteq DOMAIN blog'.result
            /\ UNCHANGED <<engineVars, stateVars, build_cache>>
            /\ vct' = NoVct
            /\ workers' = 0
            /\ tasks' = <<>>
            /\ \A n \in BuildNames : blog'.builds[n] = 0
            /\ blog'.provisions = {} ]_vars

\* A second call for hgmaster and hgweb under use_last, given no mapping,
\* has returned the last images without a vct container or a task.
C13_Witness ==
    /\ bcalls = 2
    /\ bpc = "returned"
    /\ bargs.use_last
    /\ bargs.existing = EmptyMap
    /\ blog.roles = AnsibleRoles
    /\ DOMAIN blog.result = AnsibleRoles
    /\ tasks = <<>>
    /\ vct = NoVct

\* C14: run_ansible called with both a builder and a start image, or with
\* neither, raises the argument error with the engine and the state as they
\* were: nothing is built, no vct container is acquired, no container is
\* created.
C14_BadArgumentsTouchNothing ==
    [][ (/\ apc = "idle"
         /\ apc' # "idle"
         /\ (aargs'.builder = NoBuilder <=> aargs'.start_image = NoImage)) =>
            /\ apc' = "raised"
            /\ alog'.error = "argument"
            /\ UNCHANGED <<engineVars, stateVars, build_cache>>
            /\ alocal'.vcid = NoImage
            /\ alocal'.cid = NoImage ]_vars

\* run_ansible has refused a call that named both a builder and a start
\* image.
C14_Witness ==
    /\ apc = "raised"
    /\ alog.error = "argument"
    /\ aargs.builder = "centos7"
    /\ aargs.start_image = 1
    /\ images = alog.images
    /\ containers = alog.containers

\* The images made by a commit since run_ansible was called.
CommittedSinceCall ==
    { i \in ImageIds \ DOMAIN alog.images :
        Head(images[i].History).CreatedBy = "/sync-and-build" }

\* C15: run_ansible commits an image if and only if the container of the
\* playbook was observed stopped with exit code zero.  It then returns the
\* image, the repository and the tag, the image being tagged repository:tag
\* with a tag no other image carries.  On a non-zero exit code it raises, and
\* no image was committed or tagged.
C15_CommitIffExitCodeZero ==
    /\ (apc # "idle" /\ CommittedSinceCall # {}) => apc = "returned"
    /\ apc = "returned" =>
          /\ alog.seen_stopped
          /\ alocal.exit_code = 0
          /\ CommittedSinceCall = {alocal.result[1]}
          /\ alocal.result[2] = aargs.repository
          /\ images[alocal.result[1]].RepoTags =
                 {RepoTag(aargs.repository, alocal.result[3])}
          /\ \A j \in ImageIds \ {alocal.result[1]} :
                \A repotag \in images[j].RepoTags : repotag[2] # alocal.result[3]
    /\ (alog.seen_stopped /\ apc \in {"returned", "raised"}) =>
          (apc = "returned" <=> alocal.exit_code = 0)
    /\ (apc = "raised" /\ alog.seen_stopped) =>
          /\ alog.error = "ansible"
          /\ \A i \in DOMAIN alog.images :
                i \in ImageIds /\ images[i].RepoTags = alog.images[i].RepoTags
          /\ \A i \in ImageIds \ DOMAIN alog.images :
                ~HasRepo(images, i, aargs.repository)

\* run_ansible has returned the image it committed from the builder's image
\* after the attach stream had ended early once.
C15_Witness ==
    /\ apc = "returned"
    /\ aargs.builder = "centos7"
    /\ alocal.early_ends >= 1
    /\ alocal.exit_code = 0
    /\ alocal.result[1] \in ImageIds
    /\ alocal.cid \notin ContainerIds

\* C16: when a task of ensure_images_built has failed, the tasks submitted
\* with it are not cancelled: a queued task stays queued until a worker runs
\* it, and the call raises to its caller only when every submitted task has
\* settled, one that was collected having failed.
C16_FailureWaitsForSiblings ==
    /\ [](bpc \in {"unwind", "raised"} /\ tasks # <<>> =>
            \E i \in collected : tasks[i].status = "failed")
    /\ [](bpc = "raised" =>
            \A i \in DOMAIN tasks : tasks[i].status \in {"done", "failed"})
    /\ [][ \A i \in DOMAIN tasks :
              tasks[i].status \in {"queued", "running", "provisioning"} =>
                  /\ i \in DOMAIN tasks'
                  /\ tasks[i].status = "queued" =>
                        tasks'[i].status \in {"queued", "running"} ]_vars

\* The call has raised the failure of one role after another role, whose
\* result it never collected, was built to the end.
C16_Witness ==
    /\ bpc = "raised"
    /\ \E i \in collected : tasks[i].status = "failed"
    /\ \E j \in DOMAIN tasks \ collected :
          /\ InFs(j)
          /\ tasks[j].status = "done"
          /\ tasks[j].result \in ImageIds

\* C17: when the scope of vct_container is left, the container is stopped if
\* the scope started it (modes 2 and 3), also when the copy of the source
\* tree or the body of the scope raised; with a container id from the caller
\* (mode 1) the scope starts, syncs and stops nothing and leaves the
\* container as it found it.
C17_VctStoppedByItsStarter ==
    apc \in {"returned", "raised"} =>
        /\ alocal.start =>
              /\ aargs.vct_cid = NoImage
              /\ alocal.vcid \in alog.started => alocal.vcid \in alog.stopped
              /\ ~containers[alocal.vcid].Running
        /\ alog.started \subseteq alog.stopped
        /\ alog.stopped \subseteq {alocal.vcid}
        /\ aargs.vct_cid # NoImage =>
              /\ ~alocal.start
              /\ alog.started = {} /\ alog.synced = {} /\ alog.stopped = {}
              /\ aargs.vct_cid \in DOMAIN alog.containers =>
                    /\ aargs.vct_cid \in ContainerIds
                    /\ containers[aargs.vct_cid] = alog.containers[aargs.vct_cid]
              /\ state.last = alog.state.last
              /\ state.vct_cid = alog.state.vct_cid
              /\ state_file = alog.file

\* The playbook failed inside the scope that had started the recorded vct
\* container, and the container is stopped.
C17_Witness ==
    /\ apc = "raised"
    /\ alog.error = "ansible"
    /\ aargs.vct_cid = NoImage
    /\ alocal.start
    /\ alocal.vcid = 3
    /\ alog.synced = {3}
    /\ alog.stopped = {3}
    /\ ~containers[3].Running

\* C18: every rewrite of the state file is atomic: at any point, a crash in
\* the middle of save_state included, the file holds the whole previous
\* document or the whole new one, never an empty or partial text.
C18_StateFileAlwaysWhole ==
    StateFileText \in {Serialize(state_file), Serialize(state)}


\* The files of one dict whose entries the record is to hold: those that are
\* keys of a non-empty filemap, or all of them.
KeptFiles(entries, fm) ==
    IF fm # EmptyMap THEN DOMAIN entries \cap DOMAIN fm ELSE DOMAIN entries

\* The record's dict holds exactly the entries of the kept files, each under
\* its mapped name (its own name without a filemap).
HoldsExactly(out, entries, fm) ==
    LET name(f) == IF fm # EmptyMap THEN fm[f] ELSE f
    IN /\ DOMAIN out = {name(f) : f \in KeptFiles(entries, fm)}
       /\ \A f \in KeptFiles(entries, fm) : out[name(f)] = fromkeys(entries[f])

\* C19: for a coverage file, with a non-empty filemap the record holds
\* exactly the line and arc entries of the files that are keys of filemap,
\* under the mapped names; with no or an empty filemap it holds all entries
\* under their own names; no record is emitted exactly when nothing is kept.
C19_RecordHoldsMappedEntries ==
    (cov_calls > 0 /\ cov_in.member.is_coverage) =>
        LET fm == cov_in.filemap.map
            member == cov_in.member
        IN /\ cov_out.emitted =>
                /\ HoldsExactly(cov_out.lines, member.lines, fm)
                /\ HoldsExactly(cov_out.arcs, member.arcs, fm)
           /\ ~cov_out.emitted <=>
                /\ KeptFiles(member.lines, fm) = {}
                /\ KeptFiles(member.arcs, fm) = {}


\* The attach loop is left: by no other way than an inspection that reports
\* the container not running.
LeavesAttachLoop ==
    /\ apc = "attached"
    /\ apc' # "attached"

\* A stream ends while the container is still running.
StreamEndsEarly ==
    /\ apc = "attached"
    /\ alocal'.early_ends = alocal.early_ends + 1

\* C20: in run_ansible, each time the attach stream ends while the container
\* is still running attach is called again, and the loop is left only after
\* an inspection has reported the container not running, however long that
\* takes; if the container eventually stops and every attach stream
\* eventually ends, the loop is eventually left.
C20_AttachLoopLeavesOnlyWhenStopped ==
    /\ [][LeavesAttachLoop =>
            /\ apc' = "left"
            /\ ~containers[alocal.cid].Running
            /\ alog'.seen_stopped]_vars
    /\ [][StreamEndsEarly =>
            /\ containers[alocal.cid].Running
            /\ apc' = "attached"
            /\ alog'.attaches = alog.attaches + 1]_vars
    /\ [](apc = "attached" => alog.attaches = alocal.early_ends + 1)
    /\ (apc = "attached") ~> (apc = "left")

C20_Witness ==
    /\ apc = "left"
    /\ alocal.early_ends = MaxEarlyEnds
    /\ alog.attaches = MaxEarlyEnds + 1
    /\ ~containers[alocal.cid].Running


\* A call of run_ansible with a start image has got past the choice of its
\* base.
BaseChosen ==
    /\ alog.calls > 0
    /\ apc \notin {"idle", "base"}
    /\ aargs.builder = NoBuilder
    /\ aargs.start_image \in DOMAIN alog.images
    /\ alog.error \notin {"argument", "history"}

StartHistory == alog.images[aargs.start_image].History

NewestSyncLayer(history) ==
    history[CHOOSE i \in SyncLayers(history) :
                \A j \in SyncLayers(history) : i <= j].Id

OldestSyncLayer(history) ==
    history[CHOOSE i \in SyncLayers(history) :
                \A j \in SyncLayers(history) : i >= j].Id

\* C21 as stated: past 120 layers the start image becomes the most recent
\* ancestor made by /sync-and-build, the first one in newest-first order;
\* otherwise it is unchanged.
C21_BaseIsNewestSyncLayer ==
    BaseChosen =>
        alocal.start_image =
            IF Len(StartHistory) > HistoryLimit /\ SyncLayers(StartHistory) # {}
            THEN NewestSyncLayer(StartHistory)
            ELSE aargs.start_image

\* C21: when the history of the start image has more than 120 layers,
\* run_ansible replaces the start image by the oldest layer made by
\* /sync-and-build (the last one in newest-first order: the loop does not
\* stop at the first match); with 120 or fewer layers, or with no such
\* layer, the start image is unchanged.
C21_BaseIsOldestSyncLayer ==
    BaseChosen =>
        alocal.start_image =
            IF Len(StartHistory) > HistoryLimit /\ SyncLayers(StartHistory) # {}
            THEN OldestSyncLayer(StartHistory)
            ELSE aargs.start_image

C21_Witness ==
    /\ BaseChosen
    /\ apc = "returned"
    /\ Len(StartHistory) > HistoryLimit
    /\ Cardinality(SyncLayers(StartHistory)) >= 2
    /\ alocal.start_image = 6
    /\ NewestSyncLayer(StartHistory) # 6


\* vct_container has yielded its container to run_ansible.
VctAcquired ==
    /\ alog.calls > 0
    /\ apc \in {"create", "attached", "left", "returned"}

\* The clobber of vct was pending when run_ansible was called.
VctClobbered == clobber_test(alog.state, "vct")

\* The recorded container and the supplied image vct_container goes by: none
\* under a pending clobber (lines 974-976).
RecordedCid == IF VctClobbered THEN NoImage ELSE alog.state.vct_cid
SuppliedImage == IF VctClobbered THEN NoImage ELSE aargs.vct_image

\* Mode 1: the caller's container, running at the call, is used as it is.
UsedAsIs ==
    /\ aargs.vct_cid \in DOMAIN alog.containers
    /\ alog.containers[aargs.vct_cid].Running
    /\ alocal.vcid = aargs.vct_cid
    /\ ~alocal.start
    /\ alog.started = {}
    /\ ~alog.vct_built

\* Mode 2: the recorded container, which exists, is started again.
Restarted ==
    /\ alocal.vcid = RecordedCid
    /\ alocal.start
    /\ alocal.vcid \in alog.started
    /\ ~alog.vct_built

\* Mode 3: a container that did not exist at the call is started.
FreshStarted ==
    /\ alocal.vcid \notin DOMAIN alog.containers
    /\ alocal.start
    /\ alocal.vcid \in alog.started
    /\ containers[alocal.vcid].ImageID = alocal.image

\* The modes in their order, with what mode 3 has to say of the image.
ModesInOrder(mode3) ==
    /\ VctAcquired =>
          IF aargs.vct_cid # NoImage THEN UsedAsIs
          ELSE IF RecordedCid \in DOMAIN alog.containers THEN Restarted
          ELSE FreshStarted /\ mode3
    /\ (apc \in {"sync", "create", "attached", "left", "returned"}
        /\ aargs.vct_cid = NoImage
        /\ RecordedCid # NoImage
        /\ RecordedCid \notin DOMAIN alog.containers) =>
          state.vct_cid \in {NoImage, alocal.vcid} \ {RecordedCid}
    /\ (alog.calls > 0 /\ aargs.vct_cid # NoImage /\ alog.error = "vct") =>
          ~(aargs.vct_cid \in DOMAIN alog.containers
            /\ alog.containers[aargs.vct_cid].Running)

\* C22 as stated, a pending clobber aside: a supplied container is used as
\* it is if it is running; otherwise a recorded container that exists is
\* restarted; otherwise the vct image is built and a fresh container created
\* and started.
C22_ModesInOrderAlwaysBuilding ==
    ModesInOrder(alog.vct_built)

\* C22: vct_container takes, a pending clobber aside, a supplied container
\* as it is if it is running (and raises if it is not); otherwise it
\* restarts a recorded container that exists; otherwise it creates and
\* starts a fresh container, of the supplied image if there is one and of
\* the vct image it then builds if there is none; a recorded container that
\* is gone is cleared from the state.
C22_ModesInOrder ==
    ModesInOrder(/\ alog.vct_built <=> SuppliedImage = NoImage
                 /\ ~alog.vct_built => alocal.image = SuppliedImage)

C22_Witness ==
    /\ VctAcquired
    /\ ~VctClobbered
    /\ aargs.vct_cid = NoImage
    /\ alog.state.vct_cid = 4
    /\ aargs.vct_image = 2
    /\ FreshStarted
    /\ ~alog.vct_built
    /\ state.vct_cid = alocal.vcid


\* The clobber file of vct was newer than last observed when run_ansible was
\* called: it exists, and no observation is recorded or an older one.
MarkerNewer ==
    /\ alog.calls > 0
    /\ mtime["vct"] # NoTime
    /\ (alog.state.clobber["vct"] = NoTime
        \/ alog.state.clobber["vct"] < mtime["vct"])

\* Mode 3 with nothing reused: the vct image is built and a container that
\* did not exist is created of it and started.
BuiltAndFresh ==
    /\ FreshStarted
    /\ alog.vct_built
    /\ alocal.image = build_cache["vct"]

\* C23 as stated: under a newer clobber marker of vct, vct_container always
\* uses mode 3.
C23_ClobberForcesModeThree ==
    (MarkerNewer /\ VctAcquired) => BuiltAndFresh

\* C23: under a newer clobber marker of vct, vct_container called without a
\* container id uses mode 3: it builds the vct image and creates a fresh
\* container, whatever container id is recorded and whatever image is
\* supplied; called with a container id it uses that container as it is
\* (mode 1), clobber or not.
C23_ClobberForcesModeThreeUnlessSupplied ==
    (MarkerNewer /\ VctAcquired) =>
        IF aargs.vct_cid = NoImage THEN BuiltAndFresh ELSE UsedAsIs

C23_Witness ==
    /\ MarkerNewer
    /\ VctAcquired
    /\ alog.state.clobber["vct"] = 0
    /\ aargs.vct_cid = NoImage
    /\ alog.state.vct_cid = 3
    /\ aargs.vct_image = 2
    /\ BuiltAndFresh
    /\ alocal.image # 2
    /\ alocal.vcid # 3


\* The container and the image the persisted document records for vct.
PersistedVct(doc) == <<doc.vct_cid, doc.last["vct"]>>

\* C24: once vct_container has started its container and the transfer into
\* it has succeeded, the state records the container and the image backing
\* it, and the persisted document says the same; while the transfer has not
\* succeeded, and when the start or the transfer failed, the persisted
\* vct-cid and last-vct-id are those of before the call.
C24_RecordedOnlyAfterTransfer ==
    /\ (VctAcquired /\ alocal.start) =>
          /\ state.vct_cid = alocal.vcid
          /\ state.last["vct"] = containers[alocal.vcid].ImageID
          /\ PersistedVct(state_file) = PersistedVct(state)
    /\ (alog.calls > 0 /\ (apc \in {"vct", "sync"} \/ alog.error = "sync")) =>
          PersistedVct(state_file) = PersistedVct(alog.file)


\* ensure_images_built is inside the with block of line 625.
InsideVctScope == bpc \in {"submit", "collect", "unwind"}

\* C25: within one call of ensure_images_built the vct container is acquired
\* once: it is started and the source tree copied into it (the state then
\* records it) before any task is submitted, it stays running and the same
\* while tasks are submitted and run, no step of a worker starts or stops a
\* container that exists already, and it is stopped only by the step that
\* leaves the with block, when every submitted task has settled, a failed one
\* included.
C25_VctSharedByAllTasks ==
    /\ [](InsideVctScope =>
            /\ vct.start
            /\ vct.cid \in ContainerIds
            /\ containers[vct.cid].Running
            /\ state.vct_cid = vct.cid
            /\ state_file.vct_cid = vct.cid)
    /\ [](tasks # <<>> => bpc \in {"collect", "unwind", "returned", "raised"})
    /\ [][InsideVctScope /\ bpc' # "idle" => vct' = vct]_vars
    /\ [][\A c \in DOMAIN containers \cap DOMAIN containers' :
             /\ (~containers[c].Running /\ containers'[c].Running) =>
                   (bpc = "start" /\ bpc' = "submit" /\ c = vct'.cid)
             /\ (bpc # "start" /\ containers[c].Running /\ ~containers'[c].Running) =>
                   /\ c = vct.cid
                   /\ bpc \in {"collect", "unwind"}
                   /\ bpc' \in {"returned", "raised"}
                   /\ \A i \in DOMAIN tasks :
                         tasks[i].status \in {"done", "failed"}]_vars

\* The call has raised after a provisioning task failed and another went to
\* its end; the vct container it started is stopped.
C25_Witness ==
    /\ bpc = "raised"
    /\ vct.start
    /\ vct.cid \in ContainerIds
    /\ ~containers[vct.cid].Running
    /\ \E i, j \in DOMAIN tasks :
          /\ tasks[i].kind = "ansible"
          /\ tasks[i].status = "failed"
          /\ tasks[j].kind = "ansible"
          /\ tasks[j].status = "done"
          /\ tasks[j].from # NoImage


\* Pool sizes and limits limited_threadpoolexecutor is tried with.
MaxPool == 3

\* C26: the pool of ensure_images_built has min(number of missing roles,
\* max_workers) workers when max_workers >= 1 and as many workers as there
\* are missing roles when max_workers is None or below 1; it always has a
\* size, at least 1; limited_threadpoolexecutor gives no more than
\* max_workers workers when max_workers >= 1; and no more tasks run at once
\* than the pool has workers.
C26_PoolIsBounded ==
    /\ InsideVctScope =>
          /\ workers >= 1
          /\ workers # Unlimited
          /\ IF bargs.max_workers >= 1
             THEN /\ workers <= Cardinality(missing)
                  /\ workers <= bargs.max_workers
                  /\ workers \in {Cardinality(missing), bargs.max_workers}
             ELSE workers = Cardinality(missing)
    /\ \A wanted \in 0..MaxPool, limit \in 1..MaxPool :
          /\ limited_threadpoolexecutor(wanted, limit) <= limit
          /\ wanted >= 1 =>
                /\ limited_threadpoolexecutor(wanted, limit) <= wanted
                /\ limited_threadpoolexecutor(wanted, limit) \in {wanted, limit}
                /\ limited_threadpoolexecutor(wanted, Unlimited) = wanted
    /\ Cardinality({i \in DOMAIN tasks :
                       tasks[i].status \in {"running", "provisioning"}}) <= workers

\* Two roles are missing and one worker allowed: one task runs and another
\* waits in the queue.
C26_Witness ==
    /\ bpc = "collect"
    /\ Cardinality(missing) = 2
    /\ bargs.max_workers = 1
    /\ workers = 1
    /\ \E i, j \in DOMAIN tasks :
          /\ tasks[i].status \in {"running", "provisioning"}
          /\ tasks[j].status = "queued"


\* The stream holds a line 'Successfully built <12 hex digits>'.
MarkerIn(stream) ==
    \E k \in DOMAIN stream :
        /\ stream[k].key = "stream"
        /\ stream[k].text = "built"
        /\ stream[k].hex12

\* The tags of a repository an image carries in a store.
RoleTags(store, i, repo) ==
    IF i \in DOMAIN store THEN {t \in store[i].RepoTags : t[1] = repo} ELSE {}

\* The call of ensure_built is over and had submitted a build.
BuildOver ==
    /\ epc \in {"returned", "raised"}
    /\ elog.build_calls > 0

\* C27: when the stream of the build has ended without a line 'Successfully
\* built <12 hex digits>', ensure_built raises an error that names the role,
\* returns no image, and has applied no tag; the build was submitted once
\* and is never submitted again by the call.
C27_NoMarkerRaises ==
    /\ elog.build_calls <= 1
    /\ (BuildOver /\ ~MarkerIn(elog.stream)) =>
          /\ epc = "raised"
          /\ elog.error = "unconfirmed"
          /\ elog.error_names = eargs.name
          /\ elog.result = NoImage
          /\ elog.tagged = {}
          /\ \A i \in ImageIds :
                RoleTags(images, i, eargs.name) = RoleTags(elog.images, i, eargs.name)
    /\ elog.error = "unconfirmed" => ~MarkerIn(elog.stream)

\* The engine made an image and told its id in another form: the call has
\* raised and the image carries no tag.
C27_Witness ==
    /\ epc = "raised"
    /\ elog.error = "unconfirmed"
    /\ estream = <<>>
    /\ \E k \in DOMAIN elog.stream :
          /\ elog.stream[k].text = "built"
          /\ elog.stream[k].id \in ImageIds
          /\ images[elog.stream[k].id].RepoTags = {}


\* C28: the image a call of ensure_built returns after a build (not from
\* the use_last loop) carries a tag of the repository of the role; the call
\* applies a tag only when the image carried none of that repository, and
\* then one tag; so no image ever carries two tags of the role, however
\* often an unchanged context is built.
C28_BuiltImageTaggedOnce ==
    /\ (epc = "returned" /\ ~elog.reused) =>
          /\ elog.result \in ImageIds
          /\ RoleTags(images, elog.result, eargs.name) # {}
          /\ IF RoleTags(elog.images, elog.result, eargs.name) = {}
             THEN /\ Cardinality(elog.tagged) = 1
                  /\ \A t \in elog.tagged : t[1] = elog.result /\ t[2][1] = eargs.name
             ELSE /\ elog.tagged = {}
                  /\ RoleTags(images, elog.result, eargs.name) =
                         RoleTags(elog.images, elog.result, eargs.name)
    /\ elog.tagged # {} => (epc \in {"idle", "returned"} /\ ~elog.reused)
    /\ \A i \in ImageIds : Cardinality(RoleTags(images, i, eargs.name)) <= 1

\* A second build of the unchanged context has returned the image of the
\* first and applied no tag.
C28_Witness ==
    /\ epc = "returned"
    /\ ~elog.reused
    /\ elog.calls = 2
    /\ elog.build_calls = 1
    /\ elog.result \in DOMAIN elog.images
    /\ elog.had_tag
    /\ elog.tagged = {}
    /\ Cardinality(RoleTags(images, elog.result, eargs.name)) = 1


\* The images of a store that carry a tag of the repository.
TaggedFor(store, repo) == {i \in DOMAIN store : RoleTags(store, i, repo) # {}}

\* The image is the most recently created of those tagged for the repository.
NewestFor(store, repo, i) ==
    /\ i \in TaggedFor(store, repo)
    /\ \A j \in TaggedFor(store, repo) : store[j].Created <= store[i].Created

\* ensure_built under use_last: with an image tagged for the role in the
\* engine at the call, the call is over at once, with the newest such image,
\* no submitted build and the engine as it was; and a call that submitted a
\* build found no such image.
ReusedByEnsureBuilt ==
    /\ (epc # "idle" /\ eargs.use_last /\ TaggedFor(elog.images, eargs.name) # {}) =>
          /\ epc = "returned"
          /\ elog.reused
          /\ NewestFor(elog.images, eargs.name, elog.result)
          /\ elog.build_calls = 0
          /\ images = elog.images
    /\ (eargs.use_last /\ elog.build_calls > 0) =>
          TaggedFor(elog.images, eargs.name) = {}
    /\ elog.reused => eargs.use_last /\ elog.build_calls = 0

\* The roles a call of ensure_images_built does not know through 'existing'.
NotKept(args) ==
    {r \in args.names \cup args.ansibles :
        ~(r \in DOMAIN args.existing /\ args.existing[r] \in ImageIds)}

\* ensure_images_built under use_last: a role not known through 'existing'
\* takes the newest image tagged for it and is not missing, or is missing
\* when there is none.
ReusedByEnsureImagesBuilt ==
    (bpc = "idle" /\ bpc' # "idle" /\ bargs'.use_last) =>
        /\ \A r \in NotKept(bargs') :
              IF TaggedFor(images, r) # {}
              THEN /\ r \notin missing'
                   /\ r \in DOMAIN bimages'
                   /\ NewestFor(images, r, bimages'[r])
              ELSE r \in missing'
        /\ (missing' = {}) => /\ bpc' = "returned"
                              /\ blog'.result = bimages'
                              /\ UNCHANGED <<engineVars, build_cache>>

AssemblyErrors == {"unknown", "digest", "import", "dockerignore", "include"}

\* What the builder directory has that the assembly refuses.
Refused(dir) ==
    \/ ~dir.exists
    \/ dir.dockerignore
    \/ dir.secure = "md5"
    \/ dir.include = "absent"

\* The step of ensure_built that meets a refused directory raises, with the
\* engine as it was.
RefusalRaises ==
    /\ (/\ epc = "dockerfile"
        /\ epc' # "dockerfile"
        /\ ~edir.exists \/ edir.secure = "md5") =>
            /\ epc' = "raised"
            /\ elog'.error = (IF ~edir.exists THEN "unknown" ELSE "digest")
            /\ elog'.build_calls = 0
            /\ elog'.imports = 0
            /\ UNCHANGED <<engineVars, build_cache>>
    /\ (/\ epc = "context"
        /\ epc' # "context"
        /\ edir.dockerignore \/ edir.include = "absent") =>
            /\ epc' = "raised"
            /\ elog'.error = (IF edir.dockerignore THEN "dockerignore" ELSE "include")
            /\ elog'.build_calls = 0
            /\ UNCHANGED <<engineVars, build_cache>>

\* C30: a call of ensure_built whose context assembly fails has submitted
\* nothing to the engine's build API and ends with an exception; a call
\* that goes past the use_last loop raises when the builder directory is
\* unknown, when it holds a .dockerignore, when its FROM secure: line has no
\* 'sha256 ' digest and when its include names a path that does not exist,
\* so a build is submitted only for a directory with none of these.
C30_NoBuildWithoutContext ==
    /\ [](elog.error \in AssemblyErrors =>
              /\ elog.build_calls = 0
              /\ elog.stream = <<>>
              /\ elog.tagged = {}
              /\ elog.result = NoImage
              /\ epc \in {"raised", "idle"})
    /\ []((elog.build_calls > 0 \/ epc \in {"build", "stream"}) => ~Refused(edir))
    /\ []((epc = "returned" /\ ~elog.reused) => ~Refused(edir))
    /\ [][RefusalRaises]_vars

\* In a second call the base image of a FROM secure: line was imported, and
\* the include that names no existing path raised: the engine has the base
\* image and no image of the role.
C30_Witness ==
    /\ epc = "raised"
    /\ elog.calls = 2
    /\ elog.error = "include"
    /\ edir.secure = "sha256"
    /\ elog.imports = 1
    /\ elog.build_calls = 0
    /\ ImageIds # {}
    /\ \A i \in ImageIds : RoleTags(images, i, eargs.name) = {}


\* The files the directives of the call match: the tracked files under a
\* directive that ends in '/', and the file any other directive names.
MatchedFiles(paths) ==
    {f \in Range(vct_files) \cup {Path_a_u} :
        \E k \in DOMAIN paths :
            IF EndsWithSlash(paths[k])
            THEN f \in Range(vct_files) /\ (StartsWith(f, paths[k]) \/ paths[k] = Dir_root)
            ELSE f = paths[k]}

\* How often the archive holds the file.
TimesAdded(f) == Cardinality({k \in DOMAIN tar : tar[k].full = FullPath(f)})

\* The archive holds every matched file, under extra/vct/<path>, and nothing
\* else from the source tree.
MatchedFilesArchived ==
    xpc = "closed" =>
        /\ \A f \in MatchedFiles(xlog.paths) : TimesAdded(f) >= 1
        /\ \A k \in DOMAIN tar :
              \E f \in MatchedFiles(xlog.paths) : tar[k] = Member(f)

\* C31: when the archive is closed, each file the include directives match
\* is in it exactly once, under extra/vct/<relative path>, also when several
\* directives match the file.
C31_EachMatchedFileOnce ==
    xpc = "closed" =>
        /\ \A f \in MatchedFiles(xlog.paths) : TimesAdded(f) = 1
        /\ \A k \in DOMAIN tar :
              \E f \in MatchedFiles(xlog.paths) : tar[k] = Member(f)


\* Constructed with no state file, the state reads None for every clobber,
\* last-id and vct-cid key and an empty mapping for images.
FreshStateIsNull ==
    (kpc = "made" /\ kfile = NoDocument) =>
        \A k \in ReadKeys :
            ReadState(kstate, k) = (IF k = "images" THEN "empty" ELSE "null")

\* Constructed over a document, the keys of the tuple of lines 175-190 are
\* present, with the value of the document or None.
LoadedStateIsFilled ==
    (kpc = "made" /\ kfile # NoDocument) =>
        \A k \in DefaultedKeys :
            /\ k \in DOMAIN kstate
            /\ kstate[k] = (IF k \in DOMAIN kfile THEN kfile[k] ELSE "null")

\* C32: after construction with no state file every clobber, last-id and
\* vct-cid field reads null and images is empty; after the load of any
\* document every field later operations read can be read, a missing one
\* as null or empty.
C32_EveryReadFieldIsPresent ==
    /\ FreshStateIsNull
    /\ (kpc = "made" /\ kfile # NoDocument) =>
          \A k \in ReadKeys :
              /\ ReadState(kstate, k) # "KeyError"
              /\ k \notin DOMAIN kfile =>
                     ReadState(kstate, k) = (IF k = "images" THEN "empty" ELSE "null")


\* C33: when a call of ensure_images_built that changed the state returns,
\* the persisted document equals the state in memory, so that a process
\* started later sees no clobber that this one has observed.
C33_ReturnLeavesDocumentCurrent ==
    bpc = "returned" =>
        /\ state_file = state
        /\ \A r \in ClobberRoles :
              clobber_test(state_file, r) => clobber_test(state, r)


\* run_ansible has raised because the playbook ended with a non-zero code.
ProvisioningFailed ==
    /\ apc = "raised"
    /\ alog.error = "ansible"
    /\ alocal.exit_code # 0
    /\ alocal.cid # NoImage

\* C34 as stated: after run_ansible has raised on a non-zero exit code, the
\* container of the playbook still exists.
C34_FailedContainerKept ==
    ProvisioningFailed => alocal.cid \in ContainerIds

\* C34: after run_ansible has raised on a non-zero exit code, the container
\* of the playbook, which the call created, is gone from the engine: the
\* scope of create_container removed it on the way out.
C34_FailedContainerRemoved ==
    ProvisioningFailed =>
        /\ alocal.cid \notin DOMAIN alog.containers
        /\ alocal.cid \notin ContainerIds

\* A playbook has ended with a non-zero code in a container made of image 1,
\* and run_ansible has raised.
C34_Witness ==
    /\ ProvisioningFailed
    /\ alocal.start_image = 1
    /\ alog.attaches >= 1
    /\ alocal.cid \notin ContainerIds


\* The submission loop hands the pool a provisioning task for each missing
\* role that has several images tagged for it and needs no clobber; the
\* task is given an image for which the condition holds, and no builder.
StartImageIs(chosen(_, _, _)) ==
    (bpc = "submit" /\ bpc' = "collect") =>
        \A i \in DOMAIN tasks' :
            (/\ tasks'[i].kind = "ansible"
             /\ Cardinality(TaggedFor(images, tasks'[i].name)) >= 2
             /\ ~clobber_test(state, tasks'[i].name)) =>
                /\ chosen(images, tasks'[i].name, tasks'[i].start_image)
                /\ tasks'[i].builder = NoBuilder
                /\ tasks'[i].bf = NoTask

\* The image is the least recently created of those tagged for the
\* repository.
OldestFor(store, repo, i) ==
    /\ i \in TaggedFor(store, repo)
    /\ \A j \in TaggedFor(store, repo) : store[i].Created <= store[j].Created

\* What the code does: the start image is the oldest of the tagged images.
StartImageIsOldest == [][StartImageIs(OldestFor)]_vars

\* C35: the start image ensure_images_built hands to the provisioning of a
\* missing role with several tagged images and no clobber needed is the most
\* recently created of them, and the role's builder is not built.
C35_StartImageIsNewest == [][StartImageIs(NewestFor)]_vars


\* A provisioning task that waits on a builder's future comes after it in the
\* order of submission.
BuilderSubmittedFirst ==
    \A i \in DOMAIN tasks : tasks[i].bf # NoTask =>
        /\ tasks[i].bf < i
        /\ tasks[tasks[i].bf].kind = "builder"

\* C36: a call of ensure_images_built that has entered its pool returns or
\* raises, whatever the size of the pool (one worker for three futures
\* included): the builder's future is submitted before the provisioning
\* tasks that wait on it, every future submitted settles, and the pool has at
\* least one worker.
C36_PoolNeverDeadlocks ==
    /\ [](PoolOpen => workers >= 1 /\ BuilderSubmittedFirst)
    /\ (bpc \in {"vct", "start", "submit", "collect", "unwind"}) ~>
           (bpc \in {"returned", "raised"})
    /\ (PoolOpen /\ tasks # <<>>) ~>
           (\A i \in DOMAIN tasks : tasks[i].status \in {"done", "failed"})

\* A pool of one worker has run three futures, the builder and the two
\* provisioning tasks that waited on it, and the call has returned.
C36_Witness ==
    /\ bpc = "returned"
    /\ workers = 1
    /\ Len(tasks) = 3
    /\ tasks[1].kind = "builder"
    /\ tasks[2].bf = 1
    /\ tasks[3].bf = 1
    /\ \A i \in DOMAIN tasks : tasks[i].status = "done"


\* The first call after a marker was touched or made answers True, and a
\* call about a marker that does not exist answers False and leaves the
\* state as it was.
TouchIsObserved ==
    clog.last.name # "" =>
        /\ clog.last.pending => clog.last.result
        /\ ~clog.last.existed => (~clog.last.result /\ state = clog.last.before)

\* C37: one touch of a marker makes clobber_needed answer True exactly once:
\* True at the first call after the touch (or after the marker was made),
\* False at every later call until the next touch, and False with the state
\* unchanged while the marker does not exist.
C37_OneTouchOneClobber ==
    clog.last.name # "" =>
        /\ clog.last.result = clog.last.pending
        /\ ~clog.last.existed => (~clog.last.result /\ state = clog.last.before)


\* C38: when the state names the image backing the recorded container, then
\* after vct_container has started that container again (mode 2) and copied
\* the source tree into it, last-vct-id in the state and in the persisted
\* document still names that image, which prune_images therefore goes on
\* ignoring.
C38_ReuseKeepsLastVctId ==
    (/\ VctAcquired
     /\ alocal.start
     /\ alocal.vcid \in DOMAIN alog.containers
     /\ alog.state.last["vct"] = alog.containers[alocal.vcid].ImageID) =>
        /\ state.last["vct"] # NoImage
        /\ state.last["vct"] = alog.containers[alocal.vcid].ImageID
        /\ state_file.last["vct"] = state.last["vct"]
        /\ state.last["vct"] \in ignore_images(state)


OrphansLeft == opc \in {"returned", "raised"}

\* The ids of one kind present at exit and absent from the snapshot.
Orphans(k) == Range(olog.exit[k]) \ osnap[k]

CallsOf(call) ==
    {olog.calls[n].id : n \in {m \in 1..Len(olog.calls) : olog.calls[m].call = call}}

\* Alive, and with the container variable bound, the containers and the
\* networks made in the scope are each submitted for removal by their own
\* id, also when the scope raised; no object of the snapshot leaves the
\* engine; not alive, nothing is submitted and the engine is left alone.
OrphanContainersAndNetworksCleaned ==
    OrphansLeft =>
        IF olog.alive
        THEN /\ CallsOf("remove_container") = Orphans("container")
             /\ olog.exc # "NameError" => CallsOf("remove_network") = Orphans("network")
             /\ \A k \in Kinds :
                   Range(olog.exit[k]) \cap osnap[k] \subseteq Range(oeng.list[k])
        ELSE /\ olog.calls = <<>>
             /\ oeng.list = olog.exit

\* C39: on exit from the scope with the engine alive, the calls submitted
\* are exactly remove_container, remove_image and remove_network of every
\* container, image and network present at exit and absent from the
\* snapshot, each by its own id, also when the scope raised, and no object
\* of the snapshot is removed; with the engine not alive nothing is
\* submitted.
C39_ExactlyTheOrphansRemoved ==
    OrphansLeft =>
        IF olog.alive
        THEN /\ CallsOf("remove_container") = Orphans("container")
             /\ CallsOf("remove_image") = Orphans("image")
             /\ CallsOf("remove_network") = Orphans("network")
             /\ olog.exc \in {"", "scope"}
             /\ \A k \in Kinds :
                   Range(olog.exit[k]) \cap osnap[k] \subseteq Range(oeng.list[k])
        ELSE /\ olog.calls = <<>>
             /\ oeng.list = olog.exit

====
